---- MODULE Spec2Model ----
(***************************************************************************)
(* Notice-ingestion and alert-fanout pipeline of the campus-info chatbot   *)
(* backend: the two scrapers (modules/scraper_ptu.py,                      *)
(* modules/scraper_gndec.py), the alert router (modules/alerts.py), the    *)
(* store accessor (modules/database.py) and the scheduler (scheduler.py).  *)
(*                                                                         *)
(* Every store access goes through run_query, which opens its own          *)
(* connection and returns None when the connection or the statement        *)
(* fails.  One action of the model is one run_query call or one channel    *)
(* send, together with the local computation that follows it up to the     *)
(* next such call.  Two operating-system processes run the code: the       *)
(* scheduler process and a second process that runs a scraper or a digest  *)
(* by hand (python -m modules.scraper_gndec, a second scheduler instance). *)
(***************************************************************************)
EXTENDS Integers, Sequences, FiniteSets, Bags, TLC

\* ------------------------------------------------------------------ bounds
MaxRuns == 2
MaxItems == 2
MaxFail == 1

\* --------------------------------------------------------------- constants
MAX_AGE_DAYS == 30
FirstDay == 40
MaxRefused == 2

Procs == {"sched", "manual"}

\* ------------------------------------------------------------ text helpers
\* Text is a sequence of one-character strings.
LowerCh(c) ==
  CASE c = "E" -> "e"
    [] c = "X" -> "x"
    [] c = "A" -> "a"
    [] c = "D" -> "d"
    [] c = "P" -> "p"
    [] c = "T" -> "t"
    [] c = "U" -> "u"
    [] c = "G" -> "g"
    [] c = "N" -> "n"
    [] c = "C" -> "c"
    [] OTHER -> c

UpperCh(c) ==
  CASE c = "e" -> "E"
    [] c = "x" -> "X"
    [] c = "a" -> "A"
    [] c = "d" -> "D"
    [] c = "p" -> "P"
    [] c = "t" -> "T"
    [] c = "u" -> "U"
    [] c = "g" -> "G"
    [] c = "n" -> "N"
    [] c = "c" -> "C"
    [] OTHER -> c

Lower(s) == [i \in 1..Len(s) |-> LowerCh(s[i])]

Upper(s) == [i \in 1..Len(s) |-> UpperCh(s[i])]

\* str.strip(): drop leading and trailing blanks
Strip(s) ==
  LET keep == {i \in 1..Len(s) : s[i] # " "}
  IN IF keep = {} THEN <<>>
     ELSE LET lo == CHOOSE i \in keep : \A j \in keep : i <= j
              hi == CHOOSE i \in keep : \A j \in keep : j <= i
          IN SubSeq(s, lo, hi)

\* Python's  sub in s  for strings
Contains(sub, s) ==
  \E i \in 0..(Len(s) - Len(sub)) : SubSeq(s, i + 1, i + Len(sub)) = sub

\* ------------------------------------------------------------- input data
TEx == <<"E", "x">>
TAd == <<"a", "d">>
NoText == <<>>
SrcPTU == <<"P", "T", "U">>
SrcGNDEC == <<"G", "N", "D", "E", "C">>
NoDate == 0 - 1
NoLink == ""
\* the (title, link) pairs the listing pages can show
Rows == {[title |-> TEx, link |-> "L1"], [title |-> TAd, link |-> "L2"],
         [title |-> TEx, link |-> "L2"]}

\* The alerts table.  It is written by the subscription surface (app.py),
\* never by the pipeline; a run starts from one of these tables.
Alert(i, ch, kw, src, fq, act) ==
  [id |-> i, channel |-> ch, keyword |-> kw, source |-> src,
   frequency |-> fq, active |-> act]

AlertTables ==
  { << Alert(1, "telegram", NoText, NoText, "immediate", 1),
       Alert(2, "whatsapp", <<" ", "e", "X">>, <<"p", "t", "u">>, "daily", 1),
       Alert(3, "telegram", NoText, NoText, "immediate", 0) >>,
    << Alert(1, "whatsapp", <<"e", "x">>, SrcGNDEC, "NULL", 1),
       Alert(2, "telegram", NoText, NoText, "daily", 1),
       Alert(3, "sms", NoText, NoText, "immediate", 1),
       Alert(4, "telegram", NoText, NoText, "daily", 0),
       Alert(5, "sms", <<"a", "d">>, NoText, "daily", 1) >> }

VARIABLES
  today,       \* the calendar day (datetime.now().date()) as a day number
  notices,     \* the notices table: sequence of rows, id = position
  alerts,      \* the alerts table: sequence of rows in id order
  alerts_sent, \* the alerts_sent table (the ledger): sequence of rows
  proc,        \* per process: position in the code and local variables
  runs,        \* number of jobs started so far
  items,       \* number of candidates handed to the store so far
  fails,       \* number of run_query calls that returned None on a fault
  sendLog,     \* history: the bag of channel sends with their results
  notifyLog,   \* history: the bag of notify_if_matches invocations
  markDone,    \* history: pairs for which a mark_sent call has returned
  fx           \* a function under evaluation: its arguments and its result

vars == <<today, notices, alerts, alerts_sent, proc, runs, items, fails,
          sendLog, notifyLog, markDone, fx>>

NoCand == [title |-> NoText, link |-> NoLink, date |-> NoDate]
NoAlert == Alert(0, "", NoText, NoText, "", 0)

\* The local variables of a process.  ins, checked, again, newc, got and disp
\* are history of the candidate in hand: the id its INSERT was given (0: no
\* row written), whether its existence check reached the store, whether a
\* row with its title and link / with its title or link was stored when it
\* was taken up, whether get_active_alerts reached the store, and the
\* channel dispatches of its notify_if_matches call.  In a daily_digest run
\* disp holds the dispatches of the run and ledger0 the ledger as the run
\* found it.  host tells where the job runs: "pool" is a worker thread of
\* the scheduler's executor, "shell" a process started by hand.  ptu tells,
\* while run_all_scrapers is between its two scrapers, how the PTU scraper
\* ended: "returned", "nofetch" (no listing page) or "raised".
Idle ==
  [pc |-> "idle", job |-> "none", chain |-> FALSE, cand |-> NoCand,
   date_val |-> NoDate, nid |-> 0, ins |-> 0, checked |-> FALSE,
   again |-> FALSE, newc |-> FALSE, got |-> FALSE, disp |-> <<>>,
   alist |-> <<>>, cur |-> NoAlert, recent |-> <<>>, ridx |-> 0,
   matched |-> <<>>, since |-> NoDate, saved |-> 0, host |-> "none",
   ledger0 |-> <<>>, ptu |-> "none"]

\* ------------------------------------------------------------ the store
\* run_query either reaches the store (TRUE) or returns None (FALSE).
StoreOutcomes == IF fails < MaxFail THEN {TRUE, FALSE} ELSE {TRUE}

run_query(ok) == fails' = IF ok THEN fails ELSE fails + 1

\* SELECT id FROM notices WHERE link=%s OR title=%s
SelectByLinkOrTitle(link, title) ==
  SelectSeq(notices, LAMBDA r : r.link = link \/ r.title = title)

\* SELECT id FROM notices WHERE link=%s
SelectByLink(link) == SelectSeq(notices, LAMBDA r : r.link = link)

\* an insert that overwrites the stored row of the same link
InsertNoticeRow_Upsert(title, link, date, source) ==
  IF \E i \in 1..Len(notices) : notices[i].link = link
  THEN [i \in 1..Len(notices) |->
          IF notices[i].link = link
          THEN [notices[i] EXCEPT !.title = title, !.date = date, !.source = source]
          ELSE notices[i]]
  ELSE Append(notices, [id |-> Len(notices) + 1, title |-> title, link |-> link,
                        date |-> date, source |-> source])

\* INSERT INTO notices (title, link, date, source): the id is assigned by
\* the table
InsertNoticeRow(title, link, date, source) ==
  Append(notices, [id |-> Len(notices) + 1, title |-> title, link |-> link,
                   date |-> date, source |-> source])

\* SELECT * FROM alerts WHERE active=1
SelectActiveAlerts == SelectSeq(alerts, LAMBDA a : a.active = 1)

\* SELECT * FROM alerts WHERE frequency='daily' AND active=1
SelectDailyAlerts ==
  SelectSeq(alerts, LAMBDA a : a.frequency = "daily" /\ a.active = 1)

\* SELECT id FROM alerts_sent WHERE alert_id=%s AND notice_id=%s
SelectSent(aid, nid) ==
  SelectSeq(alerts_sent, LAMBDA r : r.alert_id = aid /\ r.notice_id = nid)

\* INSERT INTO alerts_sent (alert_id, notice_id): the table has a unique
\* key on the pair, a second insert of a pair is rejected by the store
InsertSentRow(aid, nid) ==
  IF SelectSent(aid, nid) # <<>> THEN alerts_sent
  ELSE Append(alerts_sent, [alert_id |-> aid, notice_id |-> nid])

\* ------------------------------------------------------------- alerts.py
\* already_sent: bool(res), a failed query counts as "not sent"
already_sent(aid, nid, ok) == ok /\ SelectSent(aid, nid) # <<>>

\* the keyword compared without lowering it
NotifyMatches_CaseSensitive(a, title, source) ==
  LET alert_source == Upper(a.source)
      kw == Strip(a.keyword)
  IN /\ (alert_source # <<>> => alert_source = Upper(source))
     /\ (kw # <<>> => Contains(kw, Lower(title)))

\* the source and keyword filters of notify_if_matches
NotifyMatches(a, title, source) ==
  LET alert_source == Upper(a.source)
      kw == Strip(a.keyword)
  IN /\ (alert_source # <<>> => alert_source = Upper(source))
     /\ (kw # <<>> => Contains(Lower(kw), Lower(title)))

\* the frequency filter of notify_if_matches
IsImmediate(a) ==
  (IF a.frequency \in {"NULL", ""} THEN "immediate" ELSE a.frequency) = "immediate"

\* the message of notify_if_matches, field by field
NotifyMessage(row) == <<"New", Upper(row.source), row.title, row.link, row.date>>

\* ---------------------------------------------------------- the scrapers
JobSource(job) == IF job = "ptu" THEN SrcPTU ELSE SrcGNDEC

\* What a page can yield for one row / link: PTU rows come out of
\* best_title_and_link_from_row (any field may be missing), GNDEC
\* candidates out of extract_notices_from_soup (title and href present,
\* the date hint optional).
Candidates(job) ==
  IF job = "ptu"
  THEN {[title |-> r.title, link |-> r.link, date |-> d] :
          r \in Rows \cup {[title |-> NoText, link |-> "L1"], [title |-> TEx, link |-> NoLink]},
          d \in {NoDate, today - MAX_AGE_DAYS - 1, today - MAX_AGE_DAYS, today}}
  ELSE {[title |-> r.title, link |-> r.link, date |-> d] :
          r \in Rows, d \in {NoDate, today}}

\* the age filter discarding the boundary day as well
PTUKeeps_BoundaryOut(c) ==
  /\ c.title # NoText
  /\ c.link # NoLink
  /\ c.date # NoDate
  /\ ~(c.date <= today - MAX_AGE_DAYS)

\* scraper_ptu.run: the row filters that precede the store
PTUKeeps(c) ==
  /\ c.title # NoText
  /\ c.link # NoLink
  /\ c.date # NoDate
  /\ ~(c.date < today - MAX_AGE_DAYS)

\* what get_notice_date_from_page can find on the item page
PageDates == {NoDate, today - 1}

\* the date of a candidate without the fallback to the current date
GNDECDate_NoFallback(c, page_date) ==
  IF c.date # NoDate THEN c.date ELSE page_date

\* save_notices: the date stored for a candidate
GNDECDate(c, page_date) ==
  IF c.date # NoDate THEN c.date
  ELSE IF page_date # NoDate THEN page_date
  ELSE today

\* run(): the listing page is fetched once; without it the run ends
\* (html = FALSE).  The local state a process is in when the candidate
\* loop of job begins.
Begin(job, chain, host) ==
  [Idle EXCEPT !.pc = "loop", !.job = job, !.chain = chain, !.host = host]

\* back at the head of the candidate loop, saved += 1 after an insert
BackToLoop(st, counted) ==
  [Idle EXCEPT !.pc = "loop", !.job = st.job, !.chain = st.chain,
               !.host = st.host, !.saved = st.saved + counted]

\* run_all_scrapers stops after the PTU scraper
AfterRun_StopAfterPTU(st, how) == Idle

\* The local state after a run of job has ended, by returning or by an
\* exception that run_all_scrapers catches: run_all_scrapers goes on to
\* call the GNDEC scraper after the PTU scraper.
AfterRun(st, how) ==
  IF st.chain /\ st.job = "ptu"
  THEN [Idle EXCEPT !.pc = "g_fetch", !.job = "gndec", !.chain = TRUE,
                    !.host = st.host, !.ptu = how]
  ELSE Idle

\* an exception of a scraper leaves run_all_scrapers and ends the job's
\* worker
AfterRaise_Escapes(st) == [Idle EXCEPT !.pc = "crashed", !.host = st.host]

\* An exception raised inside a scraper run (parsing the page or a row):
\* run_all_scrapers catches it, prints it and goes on; a run started by
\* hand ends with it.
AfterRaise(st) == AfterRun(st, "raised")

\* scheduler.run_all_scrapers: PTU first, GNDEC after it
StartAll(p) ==
  /\ p = "sched"
  /\ proc[p].pc = "idle"
  /\ runs < MaxRuns
  /\ runs' = runs + 1
  /\ \E html \in BOOLEAN :
       proc' = [proc EXCEPT ![p] =
                  IF html THEN Begin("ptu", TRUE, "pool")
                  ELSE AfterRun(Begin("ptu", TRUE, "pool"), "nofetch")]
  /\ UNCHANGED <<fx, today, notices, alerts, alerts_sent, items, fails, sendLog,
                 notifyLog, markDone>>

\* python -m modules.scraper_ptu / modules.scraper_gndec in another process
StartOne(p, job) ==
  /\ p = "manual"
  /\ proc[p].pc = "idle"
  /\ runs < MaxRuns
  /\ runs' = runs + 1
  /\ \E html \in BOOLEAN :
       proc' = [proc EXCEPT ![p] = IF html THEN Begin(job, FALSE, "shell")
                                   ELSE Idle]
  /\ UNCHANGED <<fx, today, notices, alerts, alerts_sent, items, fails, sendLog,
                 notifyLog, markDone>>

\* scraper_gndec.run called by run_all_scrapers: find_valid_page yields the
\* listing page or nothing, and without a page the run returns
FetchGNDEC(p) ==
  /\ proc[p].pc = "g_fetch"
  /\ \E page \in BOOLEAN :
       proc' = [proc EXCEPT ![p] = IF page THEN Begin("gndec", TRUE, proc[p].host)
                                   ELSE Idle]
  /\ UNCHANGED <<fx, today, notices, alerts, alerts_sent, runs, items, fails,
                 sendLog, notifyLog, markDone>>

\* One turn of the candidate loop, for the candidate c, up to and including
\* the existence check:
\*   existing = run_query("SELECT id FROM notices WHERE link=%s OR title=%s")
\*   if existing: continue
\* PTU filters the row first; GNDEC settles the date of a candidate that is
\* not found (list hint, item page, today): page_date is what the item page
\* yields when it is opened.
TakeUp(p, c, page_date) ==
  /\ proc[p].pc = "loop"
  /\ items < MaxItems
  /\ IF proc[p].job = "ptu" /\ ~PTUKeeps(c)
     THEN UNCHANGED <<proc, items, fails>>
     ELSE /\ items' = items + 1
          /\ \E ok \in StoreOutcomes :
               /\ run_query(ok)
               /\ LET existing == IF ok THEN SelectByLinkOrTitle(c.link, c.title)
                                  ELSE <<>>
                  IN IF existing # <<>>
                     THEN UNCHANGED proc
                     ELSE proc' = [proc EXCEPT ![p].pc = "insert",
                                     ![p].cand = c,
                                     ![p].checked = ok,
                                     ![p].again = \E i \in 1..Len(notices) :
                                        /\ notices[i].title = c.title
                                        /\ notices[i].link = c.link,
                                     ![p].newc =
                                        SelectByLinkOrTitle(c.link, c.title) = <<>>,
                                     ![p].date_val =
                                        IF proc[p].job = "ptu" THEN c.date
                                        ELSE GNDECDate(c, page_date)]
  /\ UNCHANGED <<today, notices, alerts, alerts_sent, runs, sendLog,
                 notifyLog, markDone>>

\* The candidate loop: the next candidate of the batch is taken up, or the
\* batch is at its end and run() returns, or reading the page raises.
NextItem(p) ==
  /\ proc[p].pc = "loop"
  /\ \/ \E c \in Candidates(proc[p].job), page_date \in PageDates :
          TakeUp(p, c, page_date)
     \/ /\ \/ proc' = [proc EXCEPT ![p] = AfterRun(proc[p], "returned")]
           \/ proc' = [proc EXCEPT ![p] = AfterRaise(proc[p])]
        /\ UNCHANGED <<today, notices, alerts, alerts_sent, runs, items, fails,
                       sendLog, notifyLog, markDone>>
  /\ UNCHANGED fx

\* run_query("INSERT INTO notices (title, link, date, source) ...")
InsertNotice(p) ==
  /\ proc[p].pc = "insert"
  /\ \E ok \in StoreOutcomes :
       /\ run_query(ok)
       /\ LET c == proc[p].cand
          IN IF ok
             THEN /\ notices' = InsertNoticeRow(c.title, c.link, proc[p].date_val,
                                                JobSource(proc[p].job))
                  /\ proc' = [proc EXCEPT ![p].pc = "reselect",
                                          ![p].ins = Len(notices) + 1]
             ELSE /\ UNCHANGED notices
                  /\ proc' = [proc EXCEPT ![p].pc = "reselect"]
  /\ UNCHANGED <<fx, today, alerts, alerts_sent, runs, items, sendLog, notifyLog,
                 markDone>>

\* res = run_query("SELECT id FROM notices WHERE link=%s"); if res: the
\* first row's id goes to notify_if_matches; saved += 1 either way
Reselect(p) ==
  /\ proc[p].pc = "reselect"
  /\ \E ok \in StoreOutcomes :
       /\ run_query(ok)
       /\ LET res == IF ok THEN SelectByLink(proc[p].cand.link) ELSE <<>>
          IN IF res # <<>>
             THEN /\ proc' = [proc EXCEPT ![p].pc = "n_get", ![p].nid = res[1].id]
                  /\ notifyLog' = notifyLog (+) SetToBag({
                                    [nid |-> res[1].id, ins |-> proc[p].ins,
                                     checked |-> proc[p].checked]})
             ELSE /\ proc' = [proc EXCEPT ![p] = BackToLoop(proc[p], 1)]
                  /\ UNCHANGED notifyLog
  /\ UNCHANGED <<fx, today, notices, alerts, alerts_sent, runs, items, sendLog,
                 markDone>>

\* ------------------------------------------------- alerts.notify_if_matches
Min(S) == CHOOSE i \in S : \A j \in S : i <= j

\* the channel dispatch shared by notify_if_matches and daily_digest:
\* send_whatsapp / send_telegram return True or False, any other channel
\* is not called at all
SendOutcomes(channel) ==
  IF channel \in {"whatsapp", "telegram"} THEN {"ok", "failed"} ELSE {"nocall"}

SendRecord(by, a, nids, text, out) ==
  [by |-> by, alert |-> a.id, channel |-> a.channel,
   nids |-> nids, text |-> text, ok |-> (out = "ok")]

\* a send that returned failure tried again
NotifyAfterSend_Retry(out) == IF out = "ok" THEN "n_mark" ELSE "n_send"

\* mark_sent reached whatever the send returned
NotifyAfterSend_Always(out) == "n_mark"

\* if sent: mark_sent(...)    (the step that follows the dispatch)
NotifyAfterSend(out) == IF out = "ok" THEN "n_mark" ELSE "n_loop"

\* the matched notices marked whatever the send returned
DigestAfterSend_Always(out) == "d_mark"

\* if sent: for m in matched: mark_sent(aid, m["id"])
DigestAfterSend(out) == IF out = "ok" THEN "d_mark" ELSE "d_scan"

\* the notice_row the scraper hands over
NoticeRow(p) ==
  [id |-> proc[p].nid, title |-> proc[p].cand.title, link |-> proc[p].cand.link,
   date |-> proc[p].date_val, source |-> JobSource(proc[p].job)]

\* the alert passes the source, keyword and frequency filters of the loop
PassesNotify(a, row) == NotifyMatches(a, row.title, row.source) /\ IsImmediate(a)

\* active_alerts = get_active_alerts()   (rows or [])
NotifyGetAlerts(p) ==
  /\ proc[p].pc = "n_get"
  /\ \E ok \in StoreOutcomes :
       /\ run_query(ok)
       /\ proc' = [proc EXCEPT ![p].pc = "n_loop", ![p].got = ok,
                     ![p].alist = IF ok THEN SelectActiveAlerts ELSE <<>>]
  /\ UNCHANGED <<fx, today, notices, alerts, alerts_sent, runs, items, sendLog,
                 notifyLog, markDone>>

\* the loop over active_alerts up to and including already_sent for the next
\* alert that passes the filters; at the end of the list the scraper counts
\* the notice (saved += 1) and goes on with its next candidate
NotifyNext(p) ==
  /\ proc[p].pc = "n_loop"
  /\ LET al == proc[p].alist
         pass == {i \in 1..Len(al) : PassesNotify(al[i], NoticeRow(p))}
     IN IF pass = {}
        THEN /\ proc' = [proc EXCEPT ![p] = BackToLoop(proc[p], 1)]
             /\ UNCHANGED fails
        ELSE \E ok \in StoreOutcomes :
               /\ run_query(ok)
               /\ LET i == Min(pass)
                      rest == SubSeq(al, i + 1, Len(al))
                  IN IF already_sent(al[i].id, proc[p].nid, ok)
                     THEN proc' = [proc EXCEPT ![p].alist = rest]
                     ELSE proc' = [proc EXCEPT ![p].alist = rest,
                                     ![p].cur = al[i], ![p].pc = "n_send"]
  /\ UNCHANGED <<fx, today, notices, alerts, alerts_sent, runs, items, sendLog,
                 notifyLog, markDone>>

\* sent = send_whatsapp(...) / send_telegram(...);  if sent: mark_sent(...)
NotifySend(p) ==
  /\ proc[p].pc = "n_send"
  /\ \E out \in SendOutcomes(proc[p].cur.channel) :
       /\ sendLog' = IF out = "nocall" THEN sendLog
                     ELSE sendLog (+) SetToBag({
                            SendRecord("notify", proc[p].cur, {proc[p].nid},
                                       NotifyMessage(NoticeRow(p)), out)})
       /\ proc' = [proc EXCEPT ![p].pc = NotifyAfterSend(out),
                     ![p].disp = Append(proc[p].disp,
                                        [alert |-> proc[p].cur.id, out |-> out]),
                     ![p].cur = IF NotifyAfterSend(out) = "n_loop" THEN NoAlert
                                ELSE proc[p].cur]
  /\ UNCHANGED <<fx, today, notices, alerts, alerts_sent, runs, items, fails,
                 notifyLog, markDone>>

\* mark_sent: the insert's result is not looked at
mark_sent(aid, nid, ok) ==
  /\ alerts_sent' = IF ok THEN InsertSentRow(aid, nid) ELSE alerts_sent
  /\ markDone' = markDone \cup {<<aid, nid>>}

NotifyMark(p) ==
  /\ proc[p].pc = "n_mark"
  /\ \E ok \in StoreOutcomes :
       /\ run_query(ok)
       /\ mark_sent(proc[p].cur.id, proc[p].nid, ok)
  /\ proc' = [proc EXCEPT ![p].pc = "n_loop", ![p].cur = NoAlert]
  /\ UNCHANGED <<fx, today, notices, alerts, runs, items, sendLog, notifyLog>>

\* ------------------------------------------------- scheduler.daily_digest
\* the keyword of the digest filter lowered but not stripped
DigestMatches_NoStrip(a, n) ==
  LET kw == Lower(a.keyword)
      alert_source == Upper(a.source)
      n_source == Upper(n.source)
  IN /\ ~(alert_source # <<>> /\ alert_source # n_source)
     /\ (kw # <<>> => Contains(kw, Lower(n.title)))

\* the source and keyword filters of daily_digest
DigestMatches(a, n) ==
  LET kw == Lower(Strip(a.keyword))
      alert_source == Upper(a.source)
      n_source == Upper(n.source)
  IN /\ ~(alert_source # <<>> /\ alert_source # n_source)
     /\ (kw # <<>> => Contains(kw, Lower(n.title)))

\* SELECT ... FROM notices WHERE date >= %s ORDER BY date DESC
fetch_recent_notices(since_date) ==
  LET S == {i \in 1..Len(notices) : notices[i].date >= since_date}
      before(i, j) == \/ notices[i].date > notices[j].date
                      \/ notices[i].date = notices[j].date /\ i < j
      rank(i) == 1 + Cardinality({j \in S : before(j, i)})
  IN [k \in 1..Cardinality(S) |-> notices[CHOOSE i \in S : rank(i) = k]]

\* the text of a digest, field by field
DigestText(matched) ==
  LET RECURSIVE body(_)
      body(k) == IF k = 0 THEN <<"Digest">>
                 ELSE body(k - 1) \o <<matched[k].title, matched[k].link,
                                        matched[k].date>>
  IN body(Len(matched))

\* daily_digest has returned; what it did is kept until the worker is free
DigestDone(st) ==
  [Idle EXCEPT !.pc = "d_done", !.job = "digest", !.host = st.host,
               !.disp = st.disp, !.ledger0 = st.ledger0]

\* Where a daily_digest job can be started from slot p: the scheduler runs
\* its jobs on the worker threads of its default executor, one instance of
\* a job at a time (max_instances = 1), so the digest job can start on a
\* second worker while the scraper job is running; the second slot can
\* also be another process.
DigestHosts(p) ==
  LET q == CHOOSE x \in Procs : x # p
      free == ~(proc[q].job = "digest" /\ proc[q].host = "pool")
  IN IF p = "sched" THEN (IF free THEN {"pool"} ELSE {})
     ELSE (IF free THEN {"pool", "shell"} ELSE {"shell"})

\* since = (now - 1 day).date(); alerts = run_query(...) or []
StartDigest(p) ==
  /\ proc[p].pc = "idle"
  /\ runs < MaxRuns
  /\ runs' = runs + 1
  /\ \E host \in DigestHosts(p), ok \in StoreOutcomes :
       /\ run_query(ok)
       /\ LET al == IF ok THEN SelectDailyAlerts ELSE <<>>
              st == [Idle EXCEPT !.pc = "d_recent", !.job = "digest",
                                 !.host = host, !.ledger0 = alerts_sent,
                                 !.alist = al, !.since = today - 1]
          IN proc' = [proc EXCEPT ![p] = IF al = <<>> THEN DigestDone(st) ELSE st]
  /\ UNCHANGED <<fx, today, notices, alerts, alerts_sent, items, sendLog,
                 notifyLog, markDone>>

\* recent_notices = fetch_recent_notices(since)
DigestRecent(p) ==
  /\ proc[p].pc = "d_recent"
  /\ \E ok \in StoreOutcomes :
       /\ run_query(ok)
       /\ LET rows == IF ok THEN fetch_recent_notices(proc[p].since) ELSE <<>>
          IN proc' = [proc EXCEPT ![p] =
                        IF rows = <<>> THEN DigestDone(proc[p])
                        ELSE [proc[p] EXCEPT !.pc = "d_scan", !.recent = rows,
                                             !.ridx = 1]]
  /\ UNCHANGED <<fx, today, notices, alerts, alerts_sent, runs, items, sendLog,
                 notifyLog, markDone>>

\* a failure on one alert ends the digest run
NextAlert_EndsRun(st) == DigestDone(st)

\* the next alert of the digest loop, or the end of the job
NextAlert(st) ==
  IF Len(st.alist) > 1
  THEN [st EXCEPT !.pc = "d_scan", !.alist = Tail(st.alist), !.ridx = 1,
                  !.matched = <<>>]
  ELSE DigestDone(st)

\* the inner loop over recent_notices up to and including already_sent for
\* the next notice that passes the filters; at the end of the list the
\* alert is skipped if nothing matched
DigestScan(p) ==
  /\ proc[p].pc = "d_scan"
  /\ LET st == proc[p]
         a == Head(st.alist)
         pass == {i \in st.ridx..Len(st.recent) : DigestMatches(a, st.recent[i])}
     IN IF pass = {}
        THEN /\ proc' = [proc EXCEPT ![p] =
                           IF st.matched = <<>> THEN NextAlert(st)
                           ELSE [st EXCEPT !.pc = "d_send", !.ridx = 1]]
             /\ UNCHANGED fails
        ELSE \E ok \in StoreOutcomes :
               /\ run_query(ok)
               /\ LET i == Min(pass)
                  IN proc' = [proc EXCEPT ![p].ridx = i + 1,
                                ![p].matched =
                                   IF already_sent(a.id, st.recent[i].id, ok)
                                   THEN st.matched
                                   ELSE Append(st.matched, st.recent[i])]
  /\ UNCHANGED <<fx, today, notices, alerts, alerts_sent, runs, items, sendLog,
                 notifyLog, markDone>>

\* one aggregated send for the alert
DigestSend(p) ==
  /\ proc[p].pc = "d_send"
  /\ LET st == proc[p]
         a == Head(st.alist)
     IN \E out \in SendOutcomes(a.channel) :
          /\ sendLog' = IF out = "nocall" THEN sendLog
                        ELSE sendLog (+) SetToBag({
                               SendRecord("digest", a,
                                          {st.matched[k].id : k \in 1..Len(st.matched)},
                                          DigestText(st.matched), out)})
          /\ LET sd == [st EXCEPT !.disp = Append(st.disp,
                                    [alert |-> a.id, out |-> out,
                                     nids |-> {st.matched[k].id :
                                                 k \in 1..Len(st.matched)}])]
             IN proc' = [proc EXCEPT ![p] =
                           IF DigestAfterSend(out) = "d_mark"
                           THEN [sd EXCEPT !.pc = "d_mark", !.ridx = 1]
                           ELSE NextAlert(sd)]
  /\ UNCHANGED <<fx, today, notices, alerts, alerts_sent, runs, items, fails,
                 notifyLog, markDone>>

\* for m in matched: mark_sent(aid, m["id"])
DigestMark(p) ==
  /\ proc[p].pc = "d_mark"
  /\ LET st == proc[p]
     IN /\ \E ok \in StoreOutcomes :
             /\ run_query(ok)
             /\ mark_sent(Head(st.alist).id, st.matched[st.ridx].id, ok)
        /\ proc' = [proc EXCEPT ![p] =
                      IF st.ridx < Len(st.matched)
                      THEN [st EXCEPT !.ridx = st.ridx + 1]
                      ELSE NextAlert(st)]
  /\ UNCHANGED <<fx, today, notices, alerts, runs, items, sendLog, notifyLog>>

\* the worker is free again
DigestReturn(p) ==
  /\ proc[p].pc = "d_done"
  /\ proc' = [proc EXCEPT ![p] = Idle]
  /\ UNCHANGED <<fx, today, notices, alerts, alerts_sent, runs, items, fails,
                 sendLog, notifyLog, markDone>>

\* ---------------------------------------------------------- specification
InitPipeline ==
  /\ today = FirstDay
  /\ notices = <<>>
  /\ alerts \in AlertTables
  /\ alerts_sent = <<>>
  /\ proc = [p \in Procs |-> Idle]
  /\ runs = 0
  /\ items = 0
  /\ fails = 0
  /\ sendLog = EmptyBag
  /\ notifyLog = EmptyBag
  /\ markDone = {}

Init == InitPipeline /\ fx = <<>>

\* one step of process p
Step(p) ==
  \/ StartAll(p)
  \/ \E job \in {"ptu", "gndec"} : StartOne(p, job)
  \/ FetchGNDEC(p)
  \/ NextItem(p)
  \/ InsertNotice(p)
  \/ Reselect(p)
  \/ NotifyGetAlerts(p)
  \/ NotifyNext(p)
  \/ NotifySend(p)
  \/ NotifyMark(p)
  \/ StartDigest(p)
  \/ DigestRecent(p)
  \/ DigestScan(p)
  \/ DigestSend(p)
  \/ DigestMark(p)
  \/ DigestReturn(p)

Next == \E p \in Procs : Step(p)

\* The two processes overlap freely and any store call may fail.
Spec == Init /\ [][Next]_vars

\* The runs follow one another: a job starts only when no other is running.
SeqNext ==
  \E p \in Procs : (\A q \in Procs \ {p} : proc[q].pc = "idle") /\ Step(p)

SpecSeq == Init /\ [][SeqNext]_vars

\* The processes overlap, and every store call reaches the store.
ReliableNext == Next /\ fails' = fails

SpecReliable == Init /\ [][ReliableNext]_vars

\* number of entries of the bag B that satisfy Test
CountIn(B, Test(_)) ==
  BagCardinality([x \in {y \in BagToSet(B) : Test(y)} |-> CopiesIn(x, B)])

\* The scheduler process on its own, firing its two jobs again and again:
\* when no job is running the next due time comes and the counters of the
\* model start afresh.
NextCycle ==
  /\ \A p \in Procs : proc[p].pc = "idle"
  /\ runs + items > 0
  /\ runs' = 0
  /\ items' = 0
  /\ UNCHANGED <<fx, today, notices, alerts, alerts_sent, proc, fails, sendLog,
                 notifyLog, markDone>>

\* number of sends so far that returned failure
FailedSends(log) ==
  LET failed(r) == ~r.ok
  IN CountIn(log, failed)

\* Every store call is answered and the channels refuse one send at most:
\* after that they accept every send.
RetryNext ==
  \/ /\ Step("sched")
     /\ fails' = fails
     /\ FailedSends(sendLog') <= 1
  \/ NextCycle

\* Both jobs keep being fired and a job that runs keeps taking steps.
SpecRetry ==
  /\ Init
  /\ [][RetryNext]_vars
  /\ WF_vars(RetryNext)
  /\ SF_vars(StartAll("sched") /\ fails' = fails)
  /\ SF_vars(StartDigest("sched") /\ fails' = fails)

\* The scheduler process with everything that can fail in a cycle: store
\* calls that return None, sends that are refused (MaxRefused at most),
\* pages that cannot be fetched and scrapers that raise.
SchedNext ==
  /\ Step("sched")
  /\ FailedSends(sendLog') <= MaxRefused

\* A job that runs keeps taking steps.
SpecSched == Init /\ [][SchedNext]_vars /\ WF_vars(SchedNext)

\* A store that earlier cycles have filled: a PTU notice of today and a
\* GNDEC notice dated yesterday by its item page, and a ledger that is empty
\* or holds the row an earlier digest to alert 2 wrote for notice 1.  The
\* logs start empty: they tell what the runs from here on do.
StoredNotices ==
  <<[id |-> 1, title |-> TEx, link |-> "L1", date |-> FirstDay, source |-> SrcPTU],
    [id |-> 2, title |-> TAd, link |-> "L2", date |-> FirstDay - 1,
     source |-> SrcGNDEC]>>

StoredLedgers == {<<>>, <<[alert_id |-> 2, notice_id |-> 1]>>}

InitDigest ==
  /\ today = FirstDay
  /\ notices = StoredNotices
  /\ alerts \in AlertTables
  /\ alerts_sent \in StoredLedgers
  /\ proc = [p \in Procs |-> Idle]
  /\ runs = 0
  /\ items = 0
  /\ fails = 0
  /\ sendLog = EmptyBag
  /\ notifyLog = EmptyBag
  /\ markDone = {}
  /\ fx = <<>>

\* The jobs follow one another on a filled store; any store call may fail.
SpecDigest == InitDigest /\ [][SeqNext]_vars

\* One row of one batch, followed from the head of the candidate loop to
\* the head of the loop again: the scraper, the row, what the item page
\* yields and the store the row meets are inputs; fx keeps them.
RowStores == {<<>>, StoredNotices}

InitRow ==
  /\ today = FirstDay
  /\ notices \in RowStores
  /\ alerts \in AlertTables
  /\ alerts_sent = <<>>
  /\ runs = 1
  /\ items = 0
  /\ fails = 0
  /\ sendLog = EmptyBag
  /\ notifyLog = EmptyBag
  /\ markDone = {}
  /\ \E job \in {"ptu", "gndec"} :
       /\ proc = [p \in Procs |-> IF p = "sched" THEN Begin(job, TRUE, "pool")
                                   ELSE Idle]
       /\ fx \in [cand : Candidates(job), page : PageDates, stage : {"row"},
                   store0 : {notices}]

RowNext ==
  \/ /\ fx.stage = "row"
     /\ TakeUp("sched", fx.cand, fx.page)
     /\ fx' = [fx EXCEPT !.stage = "taken"]
  \/ /\ fx.stage = "taken"
     /\ \/ InsertNotice("sched")
        \/ Reselect("sched")
        \/ NotifyGetAlerts("sched")
        \/ NotifyNext("sched")
        \/ NotifySend("sched")
        \/ NotifyMark("sched")

SpecRow == InitRow /\ [][RowNext]_vars

\* A store holding notices dated around the day of the run: today,
\* yesterday, the day before yesterday, and tomorrow (the scrapers store the
\* date the page shows, and get_notice_date_from_page takes the first date
\* it finds on the item page: nothing keeps it from lying ahead).
WindowNotices ==
  StoredNotices \o
  <<[id |-> 3, title |-> <<"a", "E", "X">>, link |-> "L3", date |-> FirstDay + 1,
     source |-> SrcGNDEC],
    [id |-> 4, title |-> <<"O", "l", "d">>, link |-> "L4", date |-> FirstDay - 2,
     source |-> SrcPTU]>>

InitWindow ==
  /\ today = FirstDay
  /\ notices = WindowNotices
  /\ alerts \in AlertTables
  /\ alerts_sent \in StoredLedgers
  /\ proc = [p \in Procs |-> Idle]
  /\ runs = 0
  /\ items = 0
  /\ fails = 0
  /\ sendLog = EmptyBag
  /\ notifyLog = EmptyBag
  /\ markDone = {}
  /\ fx = <<>>

\* The jobs follow one another on that store and every store call is
\* answered.
WindowNext == SeqNext /\ fails' = fails

SpecWindow == InitWindow /\ [][WindowNext]_vars

\* ------------------------------------------------------ run_query on its own
\* One call of run_query, stage by stage: get_connection, cursor and execute,
\* commit, and the finally block.  Each stage goes through ("ok") or raises
\* mysql.connector.Error ("error"); closing may raise anything.  The result
\* tells what the caller gets back ("None", or "rows" for a fetch), whether
\* an exception leaves run_query and whether the statement was committed:
\* autocommit is off, so a statement that is not committed is rolled back
\* when the connection goes away.
QueryOutcomes == {"ok", "error"}

\* an error of get_connection leaves run_query as an exception
RunQueryResult_Raises(conn, exec, commit, close, fetch) ==
  [ret |-> IF fetch /\ conn = "ok" /\ exec = "ok" /\ commit = "ok" THEN "rows"
           ELSE "None",
   raised |-> conn # "ok",
   committed |-> conn = "ok" /\ exec = "ok" /\ commit = "ok"]

RunQueryResult(conn, exec, commit, close, fetch) ==
  IF conn # "ok" THEN [ret |-> "None", raised |-> FALSE, committed |-> FALSE]
  ELSE IF exec # "ok" \/ commit # "ok"
  THEN [ret |-> "None", raised |-> FALSE, committed |-> FALSE]
  ELSE [ret |-> IF fetch THEN "rows" ELSE "None", raised |-> FALSE,
        committed |-> TRUE]

\* the statements the pipeline sends: a SELECT (fetch=True) and the two
\* INSERTs (fetch=False)
QueryKinds == {"select", "insert_notice", "insert_sent"}

NoQuery ==
  [kind |-> "none", conn |-> "ok", exec |-> "ok", commit |-> "ok",
   close |-> "ok", ret |-> "None", raised |-> FALSE,
   before |-> <<<<>>, <<>>, <<>>>>]

QueryInit == InitPipeline /\ fx = NoQuery

QueryCall ==
  /\ Len(notices) < MaxItems
  /\ \E kind \in QueryKinds, conn \in QueryOutcomes, exec \in QueryOutcomes,
        commit \in QueryOutcomes, close \in QueryOutcomes :
       LET r == RunQueryResult(conn, exec, commit, close, kind = "select")
       IN /\ notices' = IF r.committed /\ kind = "insert_notice"
                         THEN InsertNoticeRow(TEx, "L1", today, SrcPTU)
                         ELSE notices
          /\ alerts_sent' = IF r.committed /\ kind = "insert_sent"
                             THEN InsertSentRow(1, 1)
                             ELSE alerts_sent
          /\ fx' = [kind |-> kind, conn |-> conn, exec |-> exec,
                    commit |-> commit, close |-> close, ret |-> r.ret,
                    raised |-> r.raised,
                    before |-> <<notices, alerts, alerts_sent>>]
  /\ UNCHANGED <<today, alerts, proc, runs, items, fails, sendLog, notifyLog,
                 markDone>>

SpecQuery == QueryInit /\ [][QueryCall]_vars

\* ------------------------------------------------- the date resolvers on their own
\* A text is a sequence of tokens: numbers with their value and their number
\* of digits, words, and the separators "/", "-", " " and ",".  A date is a
\* record of year, month and day; NoneDate stands for None.
Num(v, w) == [k |-> "num", v |-> v, w |-> w, s |-> ""]
Sep(c) == [k |-> "sep", v |-> 0, w |-> 0, s |-> c]
Word(name) == [k |-> "word", v |-> 0, w |-> 0, s |-> name]

NoneDate == [y |-> 0, m |-> 0, d |-> 0]

MonthNames ==
  <<"January", "February", "March", "April", "May", "June", "July", "August",
    "September", "October", "November", "December">>

MonthAbbrs ==
  <<"Jan", "Feb", "Mar", "Apr", "May", "Jun", "Jul", "Aug", "Sep", "Oct",
    "Nov", "Dec">>

\* the month a name stands for under %B / %b, 0 when it is no such name
MonthOf(names, name) ==
  IF \E i \in 1..12 : names[i] = name
  THEN CHOOSE i \in 1..12 : names[i] = name
  ELSE 0

IsLeap(y) == (y % 4 = 0 /\ y % 100 # 0) \/ y % 400 = 0

DaysIn(m, y) ==
  IF m = 2 THEN (IF IsLeap(y) THEN 29 ELSE 28)
  ELSE IF m \in {4, 6, 9, 11} THEN 30 ELSE 31

\* datetime(y, m, d).date(), or None when there is no such day
MakeDate(y, m, d) ==
  IF m \in 1..12 /\ d \in 1..DaysIn(m, y) THEN [y |-> y, m |-> m, d |-> d]
  ELSE NoneDate

IsNum(t, lo, hi) == t.k = "num" /\ t.w >= lo /\ t.w <= hi
IsSep(t, cs) == t.k = "sep" /\ t.s \in cs

\* strptime read with the day after the month for the numeric formats
Strptime_MonthFirst(t, fmt) ==
  IF Len(t) # 5 THEN NoneDate
  ELSE IF fmt \in {"%d-%m-%Y", "%d/%m/%Y"}
  THEN IF /\ IsNum(t[1], 1, 2) /\ IsNum(t[3], 1, 2) /\ IsNum(t[5], 4, 4)
          /\ IsSep(t[2], {IF fmt = "%d-%m-%Y" THEN "-" ELSE "/"})
          /\ t[4] = t[2]
       THEN MakeDate(t[5].v, t[1].v, t[3].v)
       ELSE NoneDate
  ELSE NoneDate

\* datetime.strptime(t, fmt).date(), None standing for the ValueError: %d
\* and %m take one or two digits, %Y four, %B a full month name, %b an
\* abbreviated one
Strptime(t, fmt) ==
  IF Len(t) # 5 THEN NoneDate
  ELSE IF fmt \in {"%d-%m-%Y", "%d/%m/%Y"}
  THEN IF /\ IsNum(t[1], 1, 2) /\ IsNum(t[3], 1, 2) /\ IsNum(t[5], 4, 4)
          /\ IsSep(t[2], {IF fmt = "%d-%m-%Y" THEN "-" ELSE "/"})
          /\ t[4] = t[2]
       THEN MakeDate(t[5].v, t[3].v, t[1].v)
       ELSE NoneDate
  ELSE IF fmt = "%Y-%m-%d"
  THEN IF /\ IsNum(t[1], 4, 4) /\ IsNum(t[3], 1, 2) /\ IsNum(t[5], 1, 2)
          /\ IsSep(t[2], {"-"}) /\ IsSep(t[4], {"-"})
       THEN MakeDate(t[1].v, t[3].v, t[5].v)
       ELSE NoneDate
  ELSE IF fmt \in {"%d %B %Y", "%d %b %Y"}
  THEN IF /\ IsNum(t[1], 1, 2) /\ t[3].k = "word" /\ IsNum(t[5], 4, 4)
          /\ IsSep(t[2], {" "}) /\ IsSep(t[4], {" "})
       THEN MakeDate(t[5].v,
                     MonthOf(IF fmt = "%d %B %Y" THEN MonthNames ELSE MonthAbbrs,
                             t[3].s),
                     t[1].v)
       ELSE NoneDate
  ELSE IF fmt \in {"%B %d, %Y", "%b %d, %Y"}
  THEN IF /\ t[1].k = "word" /\ IsNum(t[3], 1, 2) /\ IsNum(t[5], 4, 4)
          /\ IsSep(t[2], {" "}) /\ IsSep(t[4], {","})
       THEN MakeDate(t[5].v,
                     MonthOf(IF fmt = "%B %d, %Y" THEN MonthNames ELSE MonthAbbrs,
                             t[1].s),
                     t[3].v)
       ELSE NoneDate
  ELSE NoneDate

\* the first format of fmts under which t parses, None when there is none
RECURSIVE FirstParse(_, _)
FirstParse(t, fmts) ==
  IF fmts = <<>> THEN NoneDate
  ELSE IF Strptime(t, Head(fmts)) # NoneDate THEN Strptime(t, Head(fmts))
  ELSE FirstParse(t, Tail(fmts))

\* scraper_ptu.date_regexes, anchored by \b at both ends: whole numbers only
PtuRegex0(t) ==
  /\ Len(t) = 5
  /\ IsNum(t[1], 1, 2) /\ IsSep(t[2], {"/", "-"}) /\ IsNum(t[3], 1, 2)
  /\ IsSep(t[4], {"/", "-"}) /\ IsNum(t[5], 4, 4)

PtuRegex1(t) ==
  /\ Len(t) = 5
  /\ IsNum(t[1], 1, 2) /\ IsSep(t[2], {" "}) /\ t[3].k = "word"
  /\ IsSep(t[4], {" "}) /\ IsNum(t[5], 4, 4)

PtuRegex2(t) ==
  /\ Len(t) = 5
  /\ IsNum(t[1], 4, 4) /\ IsSep(t[2], {"/", "-"}) /\ IsNum(t[3], 1, 2)
  /\ IsSep(t[4], {"/", "-"}) /\ IsNum(t[5], 1, 2)

\* scraper_ptu.try_parse_date: regex 0 rebuilds "dd-mm-yyyy" from its groups,
\* regexes 1 and 2 parse the matched text, then the formats are tried on the
\* whole text
try_parse_date(t) ==
  LET r0 == IF PtuRegex0(t)
            THEN Strptime(<<t[1], Sep("-"), t[3], Sep("-"), t[5]>>, "%d-%m-%Y")
            ELSE NoneDate
      r1 == IF PtuRegex1(t) THEN FirstParse(t, <<"%d %B %Y", "%d %b %Y">>)
            ELSE NoneDate
      r2 == IF PtuRegex2(t) THEN Strptime(t, "%Y-%m-%d") ELSE NoneDate
  IN IF t = <<>> THEN NoneDate
     ELSE IF r0 # NoneDate THEN r0
     ELSE IF r1 # NoneDate THEN r1
     ELSE IF r2 # NoneDate THEN r2
     ELSE FirstParse(t, <<"%d-%m-%Y", "%d/%m/%Y", "%d %b %Y", "%d %B %Y",
                          "%Y-%m-%d">>)

\* The patterns of try_extract_date_from_text are not anchored: the leading
\* \d{1,2} also matches the last two digits of a longer number and the
\* trailing \d{4} the first four of a longer one.  What a pattern matches
\* in t (its group 1), or <<>>.
Last2(t) == IF t.w > 2 THEN Num(t.v % 100, 2) ELSE t

GndecMatch(t, pat) ==
  IF Len(t) # 5 THEN <<>>
  ELSE IF pat = 1
  THEN IF /\ t[1].k = "num" /\ IsSep(t[2], {" "}) /\ t[3].k = "word"
          /\ IsSep(t[4], {" "}) /\ t[5].k = "num" /\ t[5].w >= 4
       THEN <<Last2(t[1]), t[2], t[3], t[4], t[5]>> ELSE <<>>
  ELSE IF pat \in {2, 4}
  THEN IF /\ t[1].k = "num" /\ IsSep(t[2], {IF pat = 2 THEN "-" ELSE "/"})
          /\ IsNum(t[3], 1, 2) /\ t[4] = t[2] /\ t[5].k = "num" /\ t[5].w >= 4
       THEN <<Last2(t[1]), t[2], t[3], t[4], t[5]>> ELSE <<>>
  ELSE IF pat = 3
  THEN IF /\ t[1].k = "num" /\ t[1].w >= 4 /\ IsSep(t[2], {"-"})
          /\ IsNum(t[3], 1, 2) /\ IsSep(t[4], {"-"}) /\ t[5].k = "num"
       THEN t ELSE <<>>
  ELSE IF /\ t[1].k = "word" /\ IsSep(t[2], {" "}) /\ IsNum(t[3], 1, 2)
          /\ IsSep(t[4], {","}) /\ t[5].k = "num" /\ t[5].w >= 4
       THEN t ELSE <<>>

GndecFormats ==
  <<"%d %B %Y", "%d-%m-%Y", "%Y-%m-%d", "%d/%m/%Y", "%B %d, %Y", "%b %d, %Y",
    "%d %b %Y">>

\* scraper_gndec.try_extract_date_from_text: the patterns in their order,
\* every format on what a pattern matched
RECURSIVE GndecFrom(_, _)
GndecFrom(t, pat) ==
  IF pat > 5 THEN NoneDate
  ELSE IF GndecMatch(t, pat) # <<>>
          /\ FirstParse(GndecMatch(t, pat), GndecFormats) # NoneDate
  THEN FirstParse(GndecMatch(t, pat), GndecFormats)
  ELSE GndecFrom(t, pat + 1)

try_extract_date_from_text(t) == IF t = <<>> THEN NoneDate ELSE GndecFrom(t, 1)

\* The literal of a day in each supported shape; digits written with or
\* without a leading zero, the month name in full or abbreviated.
DateShapes == {"dd/mm/yyyy", "dd-mm-yyyy", "yyyy-mm-dd", "dd Month yyyy"}

Literal(shape, y, m, d, pad, abbr) ==
  LET dd == Num(d, IF pad \/ d > 9 THEN 2 ELSE 1)
      mm == Num(m, IF pad \/ m > 9 THEN 2 ELSE 1)
      yy == Num(y, 4)
  IN IF shape = "dd/mm/yyyy" THEN <<dd, Sep("/"), mm, Sep("/"), yy>>
     ELSE IF shape = "dd-mm-yyyy" THEN <<dd, Sep("-"), mm, Sep("-"), yy>>
     ELSE IF shape = "yyyy-mm-dd" THEN <<yy, Sep("-"), mm, Sep("-"), dd>>
     ELSE <<dd, Sep(" "), Word(IF abbr THEN MonthAbbrs[m] ELSE MonthNames[m]),
            Sep(" "), yy>>

DateYears == {2024, 2025}
DateMonths == {1, 2, 11, 12}
DateDays == {1, 9, 28, 29, 31}
Resolvers == {"ptu", "gndec"}

DateInit ==
  /\ InitPipeline
  /\ fx \in [y : DateYears, m : DateMonths, d : DateDays, pad : BOOLEAN,
             abbr : BOOLEAN, stage : {"text"}, res : {<<>>}]

Resolve(r, t) ==
  IF r = "ptu" THEN try_parse_date(t) ELSE try_extract_date_from_text(t)

DateEval ==
  /\ fx.stage = "text"
  /\ fx' = [fx EXCEPT !.stage = "resolved",
              !.res = [r \in Resolvers |-> [sh \in DateShapes |->
                         Resolve(r, Literal(sh, fx.y, fx.m, fx.d, fx.pad,
                                            fx.abbr))]]]
  /\ UNCHANGED <<today, notices, alerts, alerts_sent, proc, runs, items,
                 fails, sendLog, notifyLog, markDone>>

SpecDate == DateInit /\ [][DateEval]_vars

\* --------------------------------------------- the send functions on their own
\* alerts.py keeps the credentials read at import and the two clients it
\* has built so far; fx holds them together with the last call: whether a
\* client was at hand, whether the channel call went through (call_ok),
\* whether the channel was called, what the function returned and whether
\* an exception left it.
NoCall ==
  [fn |-> "none", client |-> FALSE, call_ok |-> FALSE, called |-> FALSE,
   ret |-> FALSE, raised |-> FALSE]

SendInit ==
  /\ InitPipeline
  /\ fx \in [sid : BOOLEAN, token : BOOLEAN, number : BOOLEAN,
              tg_token : BOOLEAN, twilio_client : {FALSE},
              telegram_bot : {FALSE}, last : {NoCall}]

\* _get_twilio_client / _get_telegram_bot: the cached client, or one built
\* now when the credentials are set and the import and the constructor do
\* not raise (init_ok); TRUE when a client comes back, FALSE for None
GetClient(cached, configured, init_ok) == cached \/ (configured /\ init_ok)

\* the channel called and True returned whatever the client and the call do
SendResult_Unguarded(client, sender_ok, call_ok) ==
  [called |-> TRUE, ret |-> TRUE, raised |-> FALSE]

\* the body of a send function once the client has been asked for: return
\* False without a client (or without the sender number), else call the
\* channel inside try/except and return True, or False when it raises
SendResult(client, sender_ok, call_ok) ==
  IF ~client \/ ~sender_ok
  THEN [called |-> FALSE, ret |-> FALSE, raised |-> FALSE]
  ELSE [called |-> TRUE, ret |-> call_ok, raised |-> FALSE]

LastCall(fn, client, call_ok, r) ==
  [fn |-> fn, client |-> client, call_ok |-> call_ok, called |-> r.called,
   ret |-> r.ret, raised |-> r.raised]

send_whatsapp(init_ok, call_ok) ==
  LET client == GetClient(fx.twilio_client, fx.sid /\ fx.token, init_ok)
  IN /\ fx' = [fx EXCEPT !.twilio_client = client,
                         !.last = LastCall("send_whatsapp", client, call_ok,
                                           SendResult(client, fx.number, call_ok))]
     /\ UNCHANGED <<today, notices, alerts, alerts_sent, proc, runs, items,
                    fails, sendLog, notifyLog, markDone>>

send_telegram(init_ok, call_ok) ==
  LET bot == GetClient(fx.telegram_bot, fx.tg_token, init_ok)
  IN /\ fx' = [fx EXCEPT !.telegram_bot = bot,
                         !.last = LastCall("send_telegram", bot, call_ok,
                                           SendResult(bot, TRUE, call_ok))]
     /\ UNCHANGED <<today, notices, alerts, alerts_sent, proc, runs, items,
                    fails, sendLog, notifyLog, markDone>>

SendEval ==
  \E init_ok \in BOOLEAN, call_ok \in BOOLEAN :
    \/ send_whatsapp(init_ok, call_ok)
    \/ send_telegram(init_ok, call_ok)

SpecSend == SendInit /\ [][SendEval]_vars

\* ------------------------------------------- the match decision on its own
\* Alerts and notices the two filters are evaluated on: keywords with
\* blanks around them and in either case, sources in either case or absent.
MatchKeywords == {NoText, <<"e", "x">>, <<" ", "e", "X">>, <<"a", "D">>,
                  <<"x", "e">>, <<" ">>}

MatchAlertSources == {NoText, <<"p", "t", "u">>, SrcPTU, SrcGNDEC}

MatchTitles == {TEx, TAd, <<"a", "E", "X">>}

MatchNoticeSources == {SrcPTU, SrcGNDEC, <<"g", "n", "d", "e", "c">>}

MatchInit ==
  /\ InitPipeline
  /\ \E kw \in MatchKeywords, asrc \in MatchAlertSources :
       \E t \in MatchTitles, nsrc \in MatchNoticeSources :
         fx = [pc |-> "args",
               alert |-> Alert(1, "telegram", kw, asrc, "immediate", 1),
               notice |-> [id |-> 1, title |-> t, link |-> "L1",
                           date |-> FirstDay, source |-> nsrc]]

\* both loops take their decision on the pair
MatchEval ==
  /\ fx.pc = "args"
  /\ fx' = [pc |-> "done", alert |-> fx.alert, notice |-> fx.notice,
            notify |-> NotifyMatches(fx.alert, fx.notice.title, fx.notice.source),
            digest |-> DigestMatches(fx.alert, fx.notice)]
  /\ UNCHANGED <<today, notices, alerts, alerts_sent, proc, runs, items, fails,
                 sendLog, notifyLog, markDone>>

SpecMatch == MatchInit /\ [][MatchEval]_vars

\* ------------------------------------------- the two delivery paths on their own
\* What a POST /alerts body can carry as frequency: no such key, null, or a
\* string; create_alert stores data.get("frequency", "immediate") as it is.
FrequencyInputs ==
  {"absent", "null", "", "immediate", "daily", "weekly", "Immediate"}

StoredFrequency(inp) ==
  IF inp = "absent" THEN "immediate"
  ELSE IF inp = "null" THEN "NULL"
  ELSE inp

\* An alerts table holding the one row create_alert has written, and the
\* row's active flag.
FreqInit ==
  /\ today = FirstDay
  /\ notices = <<>>
  /\ alerts_sent = <<>>
  /\ proc = [p \in Procs |-> Idle]
  /\ runs = 0
  /\ items = 0
  /\ fails = 0
  /\ sendLog = EmptyBag
  /\ notifyLog = EmptyBag
  /\ markDone = {}
  /\ \E inp \in FrequencyInputs, ch \in {"telegram", "whatsapp"},
        kw \in MatchKeywords, act \in {0, 1} :
       /\ alerts = <<Alert(1, ch, kw, NoText, StoredFrequency(inp), act)>>
       /\ fx = [inp |-> inp, stage |-> "stored", immediate |-> FALSE,
                daily |-> FALSE]

\* which path takes the row: notify_if_matches goes on to the ledger check
\* for it, daily_digest selects it
FreqEval ==
  /\ fx.stage = "stored"
  /\ fx' = [fx EXCEPT !.stage = "routed",
              !.immediate = \E i \in 1..Len(SelectActiveAlerts) :
                               IsImmediate(SelectActiveAlerts[i]),
              !.daily = SelectDailyAlerts # <<>>]
  /\ UNCHANGED <<today, notices, alerts, alerts_sent, proc, runs, items,
                 fails, sendLog, notifyLog, markDone>>

SpecFreq == FreqInit /\ [][FreqEval]_vars

\* ------------------------------------------- the listing fetch on its own
\* What a request of a listing page can come back with: nothing (fetch_page
\* and fetch_html return None on any error or timeout), or a page, of which
\* find_valid_page looks at whether its text holds "notice" and at the
\* number of its anchors.
NoPage == [got |-> FALSE, notice |-> FALSE, anchors |-> 0]
AnchorCounts == {0, 8, 9}
Pages ==
  {NoPage} \cup
  {[got |-> TRUE, notice |-> n, anchors |-> k] : n \in BOOLEAN, k \in AnchorCounts}

\* scraper_gndec.CANDIDATE_PATHS: the one path "" stands for GNDEC_URL itself
CANDIDATE_PATHS == <<"">>
GNDEC_URL == "erp.gndec.ac.in/notice"
PTU_NOTICE_PAGE == "ptu.ac.in/noticeboard-main/"

\* url = GNDEC_URL if not p else GNDEC_URL.rstrip("/") + "/" + p.lstrip("/")
CandidateUrl(path) == IF path = "" THEN GNDEC_URL ELSE "other"

\* find_valid_page: replies[k] is what the k-th request of the call comes
\* back with.  The candidate paths are requested in turn and the first page
\* that holds "notice" or more than 8 anchors is taken; after the loop
\* GNDEC_URL is requested (once more) and any page is taken.
find_valid_page(replies) ==
  LET RECURSIVE TryPaths(_)
      TryPaths(k) ==
        IF k > Len(CANDIDATE_PATHS)
        THEN [soup |-> replies[k], urls |-> <<GNDEC_URL>>]
        ELSE LET html == replies[k]
             IN IF html.got /\ (html.notice \/ html.anchors > 8)
                THEN [soup |-> html, urls |-> <<CandidateUrl(CANDIDATE_PATHS[k])>>]
                ELSE LET later == TryPaths(k + 1)
                     IN [soup |-> later.soup,
                         urls |-> <<CandidateUrl(CANDIDATE_PATHS[k])>> \o later.urls]
  IN TryPaths(1)

\* scraper_ptu.run: html = fetch_html(PTU_NOTICE_PAGE), one request
ptu_fetch(replies) == [soup |-> replies[1], urls |-> <<PTU_NOTICE_PAGE>>]

NoFetch == [soup |-> NoPage, urls |-> <<>>]

\* One run of one scraper up to the point where it has its listing page or
\* gives up; fx holds the scraper, the replies of the site and the outcome.
FetchInit ==
  /\ InitPipeline
  /\ fx \in [source : {"PTU", "GNDEC"}, replies : Pages \X Pages,
             stage : {"start"}, out : {NoFetch}]

FetchEval ==
  /\ fx.stage = "start"
  /\ fx' = [fx EXCEPT !.stage = "fetched",
              !.out = IF fx.source = "PTU" THEN ptu_fetch(fx.replies)
                      ELSE find_valid_page(fx.replies)]
  /\ UNCHANGED <<today, notices, alerts, alerts_sent, proc, runs, items,
                 fails, sendLog, notifyLog, markDone>>

SpecFetch == FetchInit /\ [][FetchEval]_vars

\* --------------------------------- the GNDEC candidate extraction on its own
\* A listing page as extract_notices_from_soup sees it: its anchors in
\* document order.  Of an anchor the function reads where it stands (place:
\* "td" inside table tbody tr td, "card" inside div.card, "none" elsewhere),
\* the length of its stripped text, whether it has an href attribute and the
\* value of it, a sequence of words.  The date hint of a candidate is drawn
\* with the candidate (Candidates) and is left out here.
MaxAnchors == 2
TextLengths == {0, 30, 31}
Hrefs ==
  {[has |-> FALSE, v |-> <<>>],
   [has |-> TRUE, v |-> <<>>],
   [has |-> TRUE, v |-> <<"JavaScript:", "go">>],
   [has |-> TRUE, v |-> <<"mailto:", "x">>],
   [has |-> TRUE, v |-> <<"/", "notice", "/", "n1">>],
   [has |-> TRUE, v |-> <<"doc", ".", "PDF">>],
   [has |-> TRUE, v |-> <<"page">>]}
Anchors == [place : {"td", "card", "none"}, text : TextLengths, href : Hrefs]

\* str.lower() on the words of an href
HrefLower(h) ==
  [i \in 1..Len(h) |->
     CASE h[i] = "JavaScript:" -> "javascript:"
       [] h[i] = "PDF" -> "pdf"
       [] OTHER -> h[i]]

\* the ordered selector list: the place an anchor must stand in (""  for
\* any) and the text its href must hold
selectors ==
  << [place |-> "td", part |-> <<>>],                  \* table tbody tr td a
     [place |-> "noticeboard_list", part |-> <<>>],    \* div.noticeboard_list a
     [place |-> "notice", part |-> <<>>],              \* div.notice a
     [place |-> "notice-list", part |-> <<>>],         \* ul.notice-list a
     [place |-> "card", part |-> <<>>],                \* div.card a
     [place |-> "page", part |-> <<"/", "notice", "/">>],  \* div.page a[href*='/notice/']
     [place |-> "", part |-> <<"notice">>],            \* a[href*='notice']
     [place |-> "", part |-> <<"/", "notice", "/">>],  \* a[href*='/notice/']
     [place |-> "entry-title", part |-> <<>>],         \* .post .entry-title a
     [place |-> "widget_recent_entries", part |-> <<>>] >>

\* soup.select(sel): the positions of the anchors that sel matches
Select(page, sel) ==
  SelectSeq([i \in 1..Len(page) |-> i],
            LAMBDA i : /\ sel.place \in {"", page[i].place}
                       /\ sel.part # <<>> =>
                            (page[i].href.has /\ Contains(sel.part, page[i].href.v)))

\* href.lower().startswith("javascript:") or ...startswith("mailto:")
NonNavigable(h) ==
  Len(h) > 0 /\ HrefLower(h)[1] \in {"javascript:", "mailto:"}

\* urljoin(base_url, href): an href with a scheme of its own stays as it is
UrlJoin(base, h) ==
  IF Len(h) > 0 /\ HrefLower(h)[1] \in {"javascript:", "mailto:"} THEN h
  ELSE <<base>> \o h

\* the candidate made of the anchor at position i
CandidateOf(page, i) ==
  [title |-> page[i].text, href |-> UrlJoin("base", page[i].href.v), idx |-> i]

\* the body of the loop over found:  if not title or not href: continue;
\* non-http handlers skipped
SelectorKeeps(a) ==
  /\ a.text # 0
  /\ a.href.has /\ a.href.v # <<>>
  /\ ~NonNavigable(a.href.v)

\* the extraction returns at the first selector that matched anything
StopsAt_AnyMatch(found, cands) == found # <<>>

\* if notices: return notices
StopsAt(found, cands) == cands # <<>>

\* the fallback scan keeping script and mail targets
FallbackKeeps_AnyTarget(a) ==
  /\ a.href.has
  /\ a.text # 0
  /\ \/ a.text > 30
     \/ Contains(<<"pdf">>, HrefLower(a.href.v))
     \/ Contains(<<"notice">>, HrefLower(a.href.v))
     \/ Contains(<<"circular">>, HrefLower(a.href.v))

\* the fallback scan over soup.find_all("a", href=True)
FallbackKeeps(a) ==
  /\ a.href.has
  /\ a.text # 0
  /\ \/ a.text > 30
     \/ Contains(<<"pdf">>, HrefLower(a.href.v))
     \/ Contains(<<"notice">>, HrefLower(a.href.v))
     \/ Contains(<<"circular">>, HrefLower(a.href.v))
  /\ ~NonNavigable(a.href.v)

\* positions to candidates, in order
CandidatesAt(page, idxs) == [k \in 1..Len(idxs) |-> CandidateOf(page, idxs[k])]

extract_notices_from_soup(page) ==
  LET RECURSIVE Try(_)
      Try(k) ==
        IF k > Len(selectors)
        THEN [pass |-> "fallback", sel |-> 0,
              notices |-> CandidatesAt(page,
                            SelectSeq([i \in 1..Len(page) |-> i],
                                      LAMBDA i : FallbackKeeps(page[i])))]
        ELSE LET found == Select(page, selectors[k])
                 cands == CandidatesAt(page,
                            SelectSeq(found, LAMBDA i : SelectorKeeps(page[i])))
             IN IF found # <<>> /\ StopsAt(found, cands)
                THEN [pass |-> "selector", sel |-> k, notices |-> cands]
                ELSE Try(k + 1)
  IN Try(1)

NoExtract == [pass |-> "none", sel |-> 0, notices |-> <<>>]

ListingPages ==
  UNION {[1..n -> Anchors] : n \in 0..MaxAnchors}

ExtractInit ==
  /\ today = FirstDay
  /\ notices = <<>>
  /\ alerts = <<>>
  /\ alerts_sent = <<>>
  /\ proc = [p \in Procs |-> Idle]
  /\ runs = 0
  /\ items = 0
  /\ fails = 0
  /\ sendLog = EmptyBag
  /\ notifyLog = EmptyBag
  /\ markDone = {}
  /\ fx \in [page : ListingPages, stage : {"page"}, out : {NoExtract}]

ExtractEval ==
  /\ fx.stage = "page"
  /\ fx' = [fx EXCEPT !.stage = "extracted",
                      !.out = extract_notices_from_soup(fx.page)]
  /\ UNCHANGED <<today, notices, alerts, alerts_sent, proc, runs, items,
                 fails, sendLog, notifyLog, markDone>>

SpecExtract == ExtractInit /\ [][ExtractEval]_vars

\* ------------------------------------------- the PTU row heuristic on its own
\* A table row as best_title_and_link_from_row sees it: its cells in order.
\* Of a cell the function reads the stripped text, what try_parse_date
\* finds in that text (NoDate: nothing) and the href of the anchor in the
\* cell (NoLink: no anchor; "notice.pdf" looks like a notice, "more" does
\* not).  An empty text holds no date.
MaxCells == 3
CellTexts == {<<>>, <<"a">>, <<"b">>, <<"c", "c">>}
CellLinks == {NoLink, "notice.pdf", "more"}
Cells ==
  {c \in [text : CellTexts, date : {NoDate, FirstDay}, link : CellLinks] :
     c.text = <<>> => c.date = NoDate}
TableRows == UNION {[1..n -> Cells] : n \in 0..MaxCells}

\* the first cell in which try_parse_date finds a date, 0 for none
DateCell(tds) ==
  LET parse == {i \in 1..Len(tds) : tds[i].date # NoDate}
  IN IF parse = {} THEN 0 ELSE Min(parse)

\* a cell as long as the longest so far replaces it
Longer_OrEqual(text, max_len) == Len(text) >= max_len

\* if len(text) > max_len
Longer(text, max_len) == Len(text) > max_len

\* the loop that selects the title cell: every cell but the date cell is
\* compared with the longest so far, max_len starting at 0
TitleCell(tds, date_td) ==
  LET RECURSIVE Scan(_, _, _)
      Scan(i, candidate, max_len) ==
        IF i > Len(tds) THEN candidate
        ELSE IF i = date_td THEN Scan(i + 1, candidate, max_len)
        ELSE IF Longer(tds[i].text, max_len)
             THEN Scan(i + 1, i, Len(tds[i].text))
             ELSE Scan(i + 1, candidate, max_len)
  IN Scan(1, 0, 0)

\* "notice" in low or low.endswith(".pdf") or href.startswith("http")
LooksLikeNotice(href) == href = "notice.pdf"

\* the link: the anchor of the title cell, else the first anchor of the row
\* that looks like a notice, else the first anchor of the row
RowLink(tds, candidate) ==
  LET anchors == {i \in 1..Len(tds) : tds[i].link # NoLink}
      likely == {i \in anchors : LooksLikeNotice(tds[i].link)}
  IN IF candidate # 0 /\ tds[candidate].link # NoLink THEN tds[candidate].link
     ELSE IF likely # {} THEN tds[Min(likely)].link
     ELSE IF anchors # {} THEN tds[Min(anchors)].link
     ELSE NoLink

\* best_title_and_link_from_row; date_td and title_td tell which cells
\* were taken
best_title_and_link_from_row(tds) ==
  IF tds = <<>>
  THEN [title |-> NoText, link |-> NoLink, date |-> NoDate, date_td |-> 0,
        title_td |-> 0]
  ELSE LET date_td == DateCell(tds)
           candidate == TitleCell(tds, date_td)
       IN [title |-> IF candidate # 0 THEN tds[candidate].text ELSE NoText,
           link |-> RowLink(tds, candidate),
           date |-> IF date_td # 0 THEN tds[date_td].date ELSE NoDate,
           date_td |-> date_td,
           title_td |-> candidate]

NoRowResult ==
  [title |-> NoText, link |-> NoLink, date |-> NoDate, date_td |-> 0,
   title_td |-> 0]

\* One row of the PTU table taken through the heuristic and the filters of
\* run that precede the store.
HeuristicInit ==
  /\ today = FirstDay
  /\ notices = <<>>
  /\ alerts = <<>>
  /\ alerts_sent = <<>>
  /\ proc = [p \in Procs |-> Idle]
  /\ runs = 0
  /\ items = 0
  /\ fails = 0
  /\ sendLog = EmptyBag
  /\ notifyLog = EmptyBag
  /\ markDone = {}
  /\ fx \in [tds : TableRows, stage : {"row"}, out : {NoRowResult},
             kept : {FALSE}]

HeuristicEval ==
  /\ fx.stage = "row"
  /\ LET r == best_title_and_link_from_row(fx.tds)
     IN fx' = [fx EXCEPT !.stage = "read", !.out = r,
                 !.kept = PTUKeeps([title |-> r.title, link |-> r.link,
                                    date |-> r.date])]
  /\ UNCHANGED <<today, notices, alerts, alerts_sent, proc, runs, items,
                 fails, sendLog, notifyLog, markDone>>

SpecHeuristic == HeuristicInit /\ [][HeuristicEval]_vars

\* --------------------------------------- the page date resolution on its own
\* An item page as get_notice_date_from_page sees it: whether the fetch
\* gave a page, whether it has a time element, the element's datetime
\* attribute and text, the content of the first publish-date meta tag, the
\* text of the first element whose class hints at a date, and the rest of
\* the visible text.  A text is empty, a word, the literal of a day that
\* does not exist or the literal of a day; each place has a day of its own.
BadDay == Literal("dd Month yyyy", 2025, 11, 31, FALSE, TRUE)
PlaceTexts(shape, day) ==
  {<<>>, <<Word("soon")>>, BadDay,
   Literal(shape, 2025, 11, day, TRUE, TRUE)}

ItemPages ==
  [got : BOOLEAN, time : BOOLEAN,
   datetime : PlaceTexts("yyyy-mm-dd", 1),
   ttext : PlaceTexts("dd Month yyyy", 9),
   meta : PlaceTexts("yyyy-mm-dd", 28),
   hinted : PlaceTexts("dd/mm/yyyy", 29),
   body : PlaceTexts("dd-mm-yyyy", 30)]

\* soup.get_text(" ", strip=True): the visible texts in document order
PageText(page) ==
  SelectSeq(<<IF page.time THEN page.ttext ELSE <<>>, page.hinted, page.body>>,
            LAMBDA t : t # <<>>)

\* try_extract_date_from_text on a text made of several pieces: each pattern
\* in turn is searched from the left, what it finds first is put to the
\* formats, and the next pattern is tried when none of them reads it
RECURSIVE SearchFrom(_, _)
SearchFrom(pieces, pat) ==
  IF pat > 5 THEN NoneDate
  ELSE LET hits == {i \in 1..Len(pieces) : GndecMatch(pieces[i], pat) # <<>>}
       IN IF hits # {}
             /\ FirstParse(GndecMatch(pieces[Min(hits)], pat), GndecFormats) # NoneDate
          THEN FirstParse(GndecMatch(pieces[Min(hits)], pat), GndecFormats)
          ELSE SearchFrom(pieces, pat + 1)

\* dt = t.get("datetime") or t.get_text(" ", strip=True)
TimeValue(page) == IF page.datetime # <<>> THEN page.datetime ELSE page.ttext

get_notice_date_from_page(page) ==
  IF ~page.got THEN NoneDate
  ELSE IF page.time /\ try_extract_date_from_text(TimeValue(page)) # NoneDate
  THEN try_extract_date_from_text(TimeValue(page))
  ELSE IF try_extract_date_from_text(page.meta) # NoneDate
  THEN try_extract_date_from_text(page.meta)
  ELSE IF try_extract_date_from_text(page.hinted) # NoneDate
  THEN try_extract_date_from_text(page.hinted)
  ELSE SearchFrom(PageText(page), 1)

PageDateInit ==
  /\ today = FirstDay
  /\ notices = <<>>
  /\ alerts = <<>>
  /\ alerts_sent = <<>>
  /\ proc = [p \in Procs |-> Idle]
  /\ runs = 0
  /\ items = 0
  /\ fails = 0
  /\ sendLog = EmptyBag
  /\ notifyLog = EmptyBag
  /\ markDone = {}
  /\ \E page \in ItemPages :
       /\ ~page.time => (page.datetime = <<>> /\ page.ttext = <<>>)
       /\ ~page.got => page = [got |-> FALSE, time |-> FALSE, datetime |-> <<>>,
                               ttext |-> <<>>, meta |-> <<>>, hinted |-> <<>>,
                               body |-> <<>>]
       /\ fx = [page |-> page, stage |-> "page", date |-> NoneDate]

PageDateEval ==
  /\ fx.stage = "page"
  /\ fx' = [fx EXCEPT !.stage = "resolved",
                      !.date = get_notice_date_from_page(fx.page)]
  /\ UNCHANGED <<today, notices, alerts, alerts_sent, proc, runs, items,
                 fails, sendLog, notifyLog, markDone>>

SpecPageDate == PageDateInit /\ [][PageDateEval]_vars

\* ------------------------------------------------ the loops on their own
\* The loops of one invocation, with their lengths as inputs.  A PTU run
\* scans the rows of the table after the header row, MAX_ROWS of them at
\* most; save_notices goes through the list of candidates, of each of which
\* it is an input whether the store holds it and whether the list gave a
\* date hint; a daily_digest run goes through its alerts and, for each,
\* through the recent notices (the steps of the digest as above).  Every
\* call made inside a loop body returns: the requests have a timeout and
\* every exception is caught in the body.
MAX_ROWS == 100
MaxCands == 2
TableLengths ==
  {0, 1, 2, 3, MAX_ROWS, MAX_ROWS + 1, MAX_ROWS + 2, MAX_ROWS + 3}
CandidateLists ==
  UNION {[1..n -> [stored : BOOLEAN, hint : BOOLEAN]] : n \in 0..MaxCands}

\* every row after the header scanned
DataRows_Uncapped(n) == IF n <= 1 THEN 0 ELSE n - 1

\* data_rows = rows[1: MAX_ROWS + 1], after 'if len(rows) <= 1: return'
DataRows(n) ==
  IF n <= 1 THEN 0
  ELSE IF n - 1 > MAX_ROWS THEN MAX_ROWS ELSE n - 1

NoScan(job, n, list) ==
  [job |-> job, n |-> n, list |-> list, stage |-> "start", len |-> 0, i |-> 0,
   handled |-> 0, visits |-> <<>>, fetches |-> <<>>, found |-> <<>>]

LoopsInit ==
  /\ today = FirstDay
  /\ alerts \in AlertTables
  /\ proc = [p \in Procs |-> Idle]
  /\ runs = 0
  /\ items = 0
  /\ fails = 0
  /\ sendLog = EmptyBag
  /\ notifyLog = EmptyBag
  /\ markDone = {}
  /\ \/ /\ notices = <<>>
        /\ alerts_sent = <<>>
        /\ \/ \E n \in TableLengths : fx = NoScan("ptu", n, <<>>)
           \/ \E list \in CandidateLists : fx = NoScan("gndec", Len(list), list)
     \/ /\ notices = StoredNotices
        /\ alerts_sent \in StoredLedgers
        /\ fx = NoScan("digest", 0, <<>>)

\* the loop is entered: for tr in data_rows / for ... in notice_items
ScanStart ==
  /\ fx.job \in {"ptu", "gndec"}
  /\ fx.stage = "start"
  /\ LET len == IF fx.job = "ptu" THEN DataRows(fx.n) ELSE fx.n
     IN fx' = [fx EXCEPT !.stage = "loop", !.len = len, !.i = 1,
                 !.visits = [k \in 1..Len(fx.list) |-> 0],
                 !.fetches = [k \in 1..Len(fx.list) |-> 0],
                 !.found = [k \in 1..Len(fx.list) |-> FALSE]]
  /\ UNCHANGED <<today, notices, alerts, alerts_sent, proc, runs, items,
                 fails, sendLog, notifyLog, markDone>>

\* one turn of the loop.  In save_notices the existence check comes first
\* (it may fail at the store and then finds nothing); a candidate that is
\* found is left; for one without a date hint the item page is fetched,
\* once, by get_notice_date_from_page.
ScanRow ==
  /\ fx.stage = "loop"
  /\ fx.i <= fx.len
  /\ IF fx.job = "ptu"
     THEN fx' = [fx EXCEPT !.i = fx.i + 1, !.handled = fx.handled + 1]
     ELSE \E ok \in BOOLEAN :
            LET c == fx.list[fx.i]
                existing == ok /\ c.stored
            IN fx' = [fx EXCEPT !.i = fx.i + 1, !.handled = fx.handled + 1,
                        !.visits[fx.i] = @ + 1,
                        !.found[fx.i] = existing,
                        !.fetches[fx.i] =
                           IF ~existing /\ ~c.hint THEN @ + 1 ELSE @]
  /\ UNCHANGED <<today, notices, alerts, alerts_sent, proc, runs, items,
                 fails, sendLog, notifyLog, markDone>>

\* the list is at its end: run / save_notices returns
ScanEnd ==
  /\ fx.stage = "loop"
  /\ fx.i > fx.len
  /\ fx' = [fx EXCEPT !.stage = "done"]
  /\ UNCHANGED <<today, notices, alerts, alerts_sent, proc, runs, items,
                 fails, sendLog, notifyLog, markDone>>

\* the steps of a daily_digest job
DigestStep(p) ==
  /\ fx.job = "digest"
  /\ \/ StartDigest(p)
     \/ DigestRecent(p)
     \/ DigestScan(p)
     \/ DigestSend(p)
     \/ DigestMark(p)
     \/ DigestReturn(p)

LoopsNext == ScanStart \/ ScanRow \/ ScanEnd \/ DigestStep("sched")

\* every call returns and the interpreter goes on: a step that can be taken
\* is taken
SpecLoops == LoopsInit /\ [][LoopsNext]_vars /\ WF_vars(LoopsNext)

\* ------------------------------------- the head of notify_if_matches on its own
\* What notice_row.get("id") can be: nothing (the key is missing or holds
\* None), an int, a string of digits, or another string.
IdInputs ==
  {[kind |-> "missing", v |-> 0], [kind |-> "None", v |-> 0],
   [kind |-> "text", v |-> 0], [kind |-> "empty", v |-> 0],
   [kind |-> "int", v |-> 1], [kind |-> "int", v |-> 2],
   [kind |-> "digits", v |-> 1]}

\* the id taken as it comes, 0 standing for what is no number
NoticeId_Unchecked(id) == [ok |-> TRUE, v |-> id.v]

\* try: notice_id = int(notice_row.get("id"))  except Exception: return
NoticeId(id) ==
  IF id.kind \in {"int", "digits"} THEN [ok |-> TRUE, v |-> id.v]
  ELSE [ok |-> FALSE, v |-> 0]

\* A call of notify_if_matches by a scraper (slot "manual") with a row of
\* the store whose id field is the input.
GuardInit ==
  /\ today = FirstDay
  /\ notices = StoredNotices
  /\ alerts \in AlertTables
  /\ alerts_sent \in StoredLedgers
  /\ proc = [p \in Procs |-> Idle]
  /\ runs = 0
  /\ items = 0
  /\ fails = 0
  /\ sendLog = EmptyBag
  /\ notifyLog = EmptyBag
  /\ markDone = {}
  /\ \E id \in IdInputs, n \in 1..Len(StoredNotices) :
       fx = [id |-> id, row |-> n, stage |-> "call", ledger |-> alerts_sent]

\* the head of notify_if_matches: the id is converted or the call returns
NotifyEnter ==
  /\ fx.stage = "call"
  /\ LET nid == NoticeId(fx.id)
         n == StoredNotices[fx.row]
     IN IF nid.ok
        THEN /\ fx' = [fx EXCEPT !.stage = "entered"]
             /\ proc' = [proc EXCEPT !["manual"] =
                           [Idle EXCEPT !.pc = "n_get",
                              !.job = IF n.source = SrcPTU THEN "ptu" ELSE "gndec",
                              !.host = "shell", !.nid = nid.v,
                              !.cand = [title |-> n.title, link |-> n.link,
                                        date |-> n.date],
                              !.date_val = n.date]]
        ELSE /\ fx' = [fx EXCEPT !.stage = "returned"]
             /\ UNCHANGED proc
  /\ UNCHANGED <<today, notices, alerts, alerts_sent, runs, items, fails,
                 sendLog, notifyLog, markDone>>

\* the rest of the call
NotifyBody(p) ==
  /\ \/ NotifyGetAlerts(p)
     \/ NotifyNext(p)
     \/ NotifySend(p)
     \/ NotifyMark(p)
  /\ fx' = fx

GuardNext == NotifyEnter \/ NotifyBody("manual")

SpecGuard == GuardInit /\ [][GuardNext]_vars

\* ------------------------------------------------------------ properties
AlertIds == {alerts[i].id : i \in 1..Len(alerts)}

NoticeIds == 1..Len(notices)

AlertRow(aid) == alerts[CHOOSE i \in 1..Len(alerts) : alerts[i].id = aid]

\* number of sends to alert aid that returned success and covered notice nid
SuccessfulSends(aid, nid) ==
  LET covers(r) == r.ok /\ r.alert = aid /\ nid \in r.nids
  IN CountIn(sendLog, covers)

\* number of ledger rows of the pair
LedgerRows(aid, nid) == Len(SelectSent(aid, nid))

\* C1: for every (alert, notice) pair at most one successful send happens
\* over any run of the pipeline, overlapping processes included.
C1_AtMostOneSend ==
  \A aid \in AlertIds : \A nid \in NoticeIds : SuccessfulSends(aid, nid) <= 1

\* C2: no two stored notices share the same link and no two share the same
\* title.
C2_UniqueLinkAndTitle ==
  \A i, j \in 1..Len(notices) :
    i # j => /\ notices[i].link # notices[j].link
             /\ notices[i].title # notices[j].title

\* C3: a candidate whose (title, link) is already stored when the scraper
\* takes it up again is not inserted and not handed to notify_if_matches,
\* and the store holds one notice for it.
C3_DedupIdempotent ==
  /\ \A p \in Procs :
       proc[p].again =>
         /\ proc[p].ins = 0
         /\ proc[p].pc \notin {"n_get", "n_loop", "n_send", "n_mark"}
  /\ \A i, j \in 1..Len(notices) :
       (notices[i].title = notices[j].title /\ notices[i].link = notices[j].link)
         => i = j

\* C4: notify_if_matches is invoked only for the notice the invoking scraper
\* call has itself just inserted, and at most once per stored notice, store
\* failures in the existence check or the insert included.
C4_NotifyOnlyFresh ==
  /\ \A r \in BagToSet(notifyLog) : r.ins = r.nid
  /\ \A nid \in NoticeIds :
       LET of(r) == r.nid = nid
       IN CountIn(notifyLog, of) <= 1

\* C5: a ledger row (alert, notice) exists only if a send to that alert
\* whose text covered that notice has returned success before, and
\* mark_sent is reached only after such a send, in notify_if_matches and in
\* daily_digest.
C5_LedgerOnlyAfterSuccess ==
  /\ \A i \in 1..Len(alerts_sent) :
       SuccessfulSends(alerts_sent[i].alert_id, alerts_sent[i].notice_id) >= 1
  /\ \A pair \in markDone : SuccessfulSends(pair[1], pair[2]) >= 1
  /\ \A p \in Procs :
       /\ proc[p].pc = "n_mark" => SuccessfulSends(proc[p].cur.id, proc[p].nid) >= 1
       /\ proc[p].pc = "d_mark" =>
            \A k \in 1..Len(proc[p].matched) :
              SuccessfulSends(Head(proc[p].alist).id, proc[p].matched[k].id) >= 1

\* a ledger row is there, next to a failed send that left no row behind
C5_Witness ==
  /\ alerts_sent # <<>>
  /\ \E r \in BagToSet(sendLog) :
       /\ ~r.ok
       /\ \A nid \in r.nids : LedgerRows(r.alert, nid) = 0

C7_MarkedThenAlreadySent ==
  \A pair \in markDone : already_sent(pair[1], pair[2], TRUE)

\* equality of two texts ignoring case
SameIgnoringCase(s, t) == Lower(s) = Lower(t)

\* the decision as the claim words it: the keyword is taken as stored
MatchAsStated(a, n) ==
  /\ (a.source = NoText \/ SameIgnoringCase(a.source, n.source))
  /\ (a.keyword = NoText \/ Contains(Lower(a.keyword), Lower(n.title)))

\* the decision with the keyword stripped of the blanks around it
MatchStripped(a, n) ==
  /\ (a.source = NoText \/ SameIgnoringCase(a.source, n.source))
  /\ (Strip(a.keyword) = NoText
        \/ Contains(Lower(Strip(a.keyword)), Lower(n.title)))

\* C8 as stated: the match decision equals (source empty or equal ignoring
\* case) and (keyword empty or the title contains the keyword ignoring case).
C8_MatchAsStated ==
  fx # <<>> /\ fx.pc = "done" =>
    /\ fx.notify = MatchAsStated(fx.alert, fx.notice)
    /\ fx.digest = MatchAsStated(fx.alert, fx.notice)

\* C8 amended: the same decision with the keyword first stripped of the
\* whitespace around it (a blank keyword counts as empty); an alert with
\* empty source and keyword matches every notice, and an alert with source
\* PTU never matches a GNDEC notice.
C8_MatchDecision ==
  fx # <<>> /\ fx.pc = "done" =>
    /\ fx.notify = MatchStripped(fx.alert, fx.notice)
    /\ fx.digest = MatchStripped(fx.alert, fx.notice)
    /\ (fx.alert.source = NoText /\ fx.alert.keyword = NoText => fx.notify /\ fx.digest)
    /\ (fx.alert.source = SrcPTU /\ fx.notice.source = SrcGNDEC
          => ~fx.notify /\ ~fx.digest)

\* a match that rests on both filters and on the case being ignored
C8_Witness ==
  /\ fx # <<>> /\ fx.pc = "done"
  /\ fx.notify /\ fx.digest
  /\ fx.alert.source # NoText /\ fx.alert.source # fx.notice.source
  /\ fx.alert.keyword # NoText /\ ~Contains(fx.alert.keyword, fx.notice.title)

\* the notify_if_matches call of process p has run through its alerts
DoneNotify(p) ==
  /\ proc[p].pc = "n_loop"
  /\ \A i \in 1..Len(proc[p].alist) : ~PassesNotify(proc[p].alist[i], NoticeRow(p))

\* the stored alerts that are active, not daily, and match the notice in hand
Eligible(p) ==
  {a \in {alerts[i] : i \in 1..Len(alerts)} :
     /\ a.active = 1
     /\ a.frequency \in {"immediate", "NULL"}
     /\ MatchStripped(a, NoticeRow(p))}

\* the dispatches of the call in hand that went to alert aid
DispatchesTo(p, aid) ==
  {k \in 1..Len(proc[p].disp) : proc[p].disp[k].alert = aid}

\* C9: notify_if_matches sends only to active alerts of immediate frequency,
\* and it attempts delivery to every active immediate alert that matches
\* the notice and has no ledger row for it.
C9_ImmediateFanout ==
  /\ \A r \in BagToSet(sendLog) :
       r.by = "notify" => /\ AlertRow(r.alert).active = 1
                          /\ AlertRow(r.alert).frequency \in {"immediate", "NULL"}
  /\ \A p \in Procs :
       DoneNotify(p) =>
         \A a \in Eligible(p) :
           LedgerRows(a.id, proc[p].nid) = 0 => DispatchesTo(p, a.id) # {}

\* C10: a candidate that was not stored and that exactly one active
\* immediate alert matches, on a channel that has a send function: when
\* its notify_if_matches call has run through, the notice is inserted, that
\* alert's channel send was called exactly once with a text containing the
\* title, and after a successful send the ledger holds exactly one row
\* (alert, notice).
C10_EndToEnd ==
  \A p \in Procs :
    ( /\ DoneNotify(p)
      /\ proc[p].newc
      /\ Cardinality(Eligible(p)) = 1
      /\ \A x \in Eligible(p) : x.channel \in {"telegram", "whatsapp"} ) =>
      LET a == CHOOSE x \in Eligible(p) : TRUE
          calls == {k \in DispatchesTo(p, a.id) : proc[p].disp[k].out # "nocall"}
      IN /\ proc[p].ins # 0
         /\ Cardinality(calls) = 1
         /\ \E r \in BagToSet(sendLog) :
              /\ r.by = "notify" /\ r.alert = a.id /\ r.nids = {proc[p].nid}
              /\ r.text[3] = proc[p].cand.title
         /\ \A k \in calls :
              proc[p].disp[k].out = "ok" => LedgerRows(a.id, proc[p].nid) = 1

\* the active daily alerts of the store
DailyAlerts ==
  {a \in {alerts[i] : i \in 1..Len(alerts)} : a.active = 1 /\ a.frequency = "daily"}

\* the stored notices of the last day that match alert a and had no ledger
\* row for it when the daily_digest run of p began
DueAtStart(p, a) ==
  {n \in {notices[i] : i \in 1..Len(notices)} :
     /\ n.date >= today - 1
     /\ MatchStripped(a, n)
     /\ \A k \in 1..Len(proc[p].ledger0) :
          ~(proc[p].ledger0[k].alert_id = a.id /\ proc[p].ledger0[k].notice_id = n.id)}

\* the send calls of the run in hand that went to alert aid
DigestCalls(p, aid) ==
  {k \in DispatchesTo(p, aid) : proc[p].disp[k].out # "nocall"}

\* C11: when a daily_digest run has returned, every active daily alert (on
\* a channel that has a send function) with n >= 1 matching, not yet sent
\* notices of the last day was sent exactly one message in the run, the
\* message covers all n notices, and if the send succeeded the ledger holds
\* a row for each of the n notices.
C11_DigestAggregation ==
  \A p \in Procs :
    proc[p].pc = "d_done" =>
      \A a \in DailyAlerts :
        (a.channel \in {"telegram", "whatsapp"} /\ DueAtStart(p, a) # {}) =>
          /\ Cardinality(DigestCalls(p, a.id)) = 1
          /\ \A k \in DigestCalls(p, a.id) :
               /\ {n.id : n \in DueAtStart(p, a)} \subseteq proc[p].disp[k].nids
               /\ proc[p].disp[k].out = "ok" =>
                    \A n \in DueAtStart(p, a) : LedgerRows(a.id, n.id) >= 1

\* C12: in a daily_digest run an active daily alert with no matching, not
\* yet sent notice of the last day is sent nothing and gets no ledger row.
C12_NoEmptyDigest ==
  \A p \in Procs :
    proc[p].job = "digest" =>
      \A a \in DailyAlerts :
        DueAtStart(p, a) = {} =>
          /\ DigestCalls(p, a.id) = {}
          /\ \A i \in 1..Len(alerts_sent) :
               alerts_sent[i].alert_id = a.id =>
                 \E k \in 1..Len(proc[p].ledger0) : proc[p].ledger0[k] = alerts_sent[i]

\* the last dispatch of the call or run that st is in
LastDispatch(st) == st.disp[Len(st.disp)]

\* C13: a send that returns failure, or a dispatch to an unknown channel,
\* is not followed by mark_sent and leaves the ledger as it is, in
\* notify_if_matches and in daily_digest; a ledger row is written only by
\* a call whose own last send succeeded, for the alert of that send.
C13_FailedSendLeavesLedger ==
  [][ /\ \A p \in Procs :
          (proc[p].pc \in {"n_send", "d_send"} /\ proc'[p] # proc[p]
             /\ LastDispatch(proc'[p]).out # "ok") =>
               /\ proc'[p].pc \notin {"n_mark", "d_mark"}
               /\ alerts_sent' = alerts_sent
               /\ markDone' = markDone
      /\ alerts_sent' # alerts_sent =>
          \E p \in Procs :
            /\ proc[p].pc \in {"n_mark", "d_mark"}
            /\ proc'[p] # proc[p]
            /\ LastDispatch(proc[p]).out = "ok"
            /\ alerts_sent'[Len(alerts_sent')].alert_id = LastDispatch(proc[p]).alert
    ]_vars

\* one call has seen a send fail and an unknown channel, and the ledger
\* holds no row of either alert
C13_Witness ==
  \E p \in Procs :
    /\ \E k \in 1..Len(proc[p].disp) : proc[p].disp[k].out = "failed"
    /\ \E k \in 1..Len(proc[p].disp) : proc[p].disp[k].out = "nocall"
    /\ \A k \in 1..Len(proc[p].disp), i \in 1..Len(alerts_sent) :
         alerts_sent[i].alert_id # proc[p].disp[k].alert

\* a send to alert aid whose text covered notice nid has returned failure
FailedDelivery(aid, nid) ==
  \E r \in BagToSet(sendLog) : ~r.ok /\ r.alert = aid /\ nid \in r.nids

\* C14: a notice whose delivery to a matching active alert has failed is
\* delivered to that alert later on, the channel accepting sends from then
\* on and the scheduler firing both jobs again and again, for immediate
\* and for daily alerts.
C14_EventuallyDelivered ==
  \A aid \in 1..5 : \A nid \in 1..3 :
    FailedDelivery(aid, nid) ~> (SuccessfulSends(aid, nid) >= 1)

\* the row in hand is a PTU row / a GNDEC candidate that has been taken up
RowTaken(job) == fx.stage = "taken" /\ proc["sched"].job = job

\* the row in hand was not in the store: neither its link nor its title
RowIsNew ==
  \A i \in 1..Len(fx.store0) :
    fx.store0[i].link # fx.cand.link /\ fx.store0[i].title # fx.cand.title

\* the row in hand left no trace: no store call, no row, no notification
RowDropped ==
  /\ items = 0
  /\ fails = 0
  /\ notices = fx.store0
  /\ notifyLog = EmptyBag
  /\ proc["sched"].pc = "loop"

\* the turn of the loop for the row in hand is over and the store answered
RowDone == proc["sched"].pc = "loop" /\ fails = 0

\* C15: the PTU scraper persists no notice dated before today minus 30
\* days, duplicate or not, and discards it before any store access; a row
\* dated exactly today minus 30 days passes the filter: it is handed to the
\* store and, when new, persisted.
C15_AgeFilter ==
  /\ \A i \in 1..Len(notices) :
       i > Len(fx.store0) /\ notices[i].source = SrcPTU
         => notices[i].date >= today - MAX_AGE_DAYS
  /\ RowTaken("ptu") /\ fx.cand.date # NoDate
       /\ fx.cand.date < today - MAX_AGE_DAYS
       => RowDropped
  /\ RowTaken("ptu") /\ fx.cand.date = today - MAX_AGE_DAYS
       /\ fx.cand.title # NoText /\ fx.cand.link # NoLink
       => /\ items = 1
          /\ RowDone /\ RowIsNew
               => \E i \in 1..Len(notices) :
                    /\ notices[i].link = fx.cand.link
                    /\ notices[i].date = today - MAX_AGE_DAYS
                    /\ notices[i].source = SrcPTU

C15_Witness ==
  /\ RowTaken("ptu")
  /\ fx.cand.date = today - MAX_AGE_DAYS
  /\ RowDone
  /\ \E i \in 1..Len(notices) :
       notices[i].link = fx.cand.link /\ notices[i].date = today - MAX_AGE_DAYS

\* C16: a PTU row whose date cannot be resolved is skipped: it is never
\* persisted and never notified.  A GNDEC candidate for which neither the
\* list hint nor the item page yields a date is inserted with the current
\* date.
C16_DateResolution ==
  /\ RowTaken("ptu") /\ fx.cand.date = NoDate => RowDropped
  /\ RowTaken("gndec") /\ fx.cand.date = NoDate /\ fx.page = NoDate
       => /\ proc["sched"].pc = "insert" => proc["sched"].date_val = today
          /\ proc["sched"].ins # 0 => notices[proc["sched"].ins].date = today
          /\ RowDone /\ RowIsNew
               => \E i \in 1..Len(notices) :
                    /\ notices[i].link = fx.cand.link
                    /\ notices[i].date = today
                    /\ notices[i].source = SrcGNDEC

C16_Witness ==
  /\ RowTaken("gndec")
  /\ fx.cand.date = NoDate
  /\ fx.page = NoDate
  /\ proc["sched"].ins # 0
  /\ notices[proc["sched"].ins].date = today
  /\ notices[proc["sched"].ins].link = fx.cand.link

\* the jobs that are running in the scheduler process
PoolJobs == {p \in Procs : proc[p].host = "pool" /\ proc[p].pc # "idle"}

\* C17: in the scheduler process run_all_scrapers and daily_digest never
\* run at the same time: while one job runs no other job and no second
\* instance of the same job is running.
C17_NoOverlap == Cardinality(PoolJobs) <= 1

\* C18: an extraction cycle runs the PTU scraper first and the GNDEC
\* scraper after it, and the GNDEC scraper is called in that cycle however
\* the PTU scraper ended: by returning, without a listing page, or by an
\* exception.
C18_GNDECAfterPTU ==
  [][\A p \in Procs :
       /\ proc[p].pc = "idle" /\ proc'[p].chain
            => \/ proc'[p].job = "ptu" /\ proc'[p].pc = "loop"
               \/ proc'[p].pc = "g_fetch" /\ proc'[p].ptu = "nofetch"
       /\ proc[p].chain /\ proc[p].job = "ptu" /\ proc'[p].job # "ptu"
            => /\ proc'[p].pc = "g_fetch"
               /\ proc'[p].job = "gndec"
               /\ proc'[p].ptu \in {"returned", "raised"}
       /\ proc'[p].pc = "g_fetch" /\ proc[p].pc # "g_fetch"
            => proc[p].job = "ptu" \/ proc[p].pc = "idle"]_vars

C18_Witness ==
  /\ proc["sched"].pc = "g_fetch"
  /\ proc["sched"].ptu = "raised"
  /\ proc["sched"].job = "gndec"
  /\ items > 0

\* C19: no failure inside a job stops the scheduler: no exception leaves
\* run_all_scrapers or daily_digest, and whatever failed in the cycles so
\* far (fetch, extraction, store, delivery) the job that runs comes to its
\* end and the scheduler can fire both jobs again.
C19_SchedulerKeepsFiring ==
  /\ [](\A p \in Procs : proc[p].pc # "crashed")
  /\ [](proc["sched"].pc = "idle" /\ runs < MaxRuns
          => ENABLED StartAll("sched") /\ ENABLED StartDigest("sched"))
  /\ (proc["sched"].pc # "idle") ~> (proc["sched"].pc = "idle")

\* a store call and a send have failed in the first job and the scheduler
\* has fired the digest after it
C19_Witness ==
  /\ fails >= 1
  /\ FailedSends(sendLog) >= 1
  /\ runs = 2
  /\ proc["sched"].pc = "d_recent"

\* the credentials the last send function called needs are all set
CredentialsSet ==
  IF fx.last.fn = "send_whatsapp" THEN fx.sid /\ fx.token /\ fx.number
  ELSE fx.tg_token

\* C20: send_whatsapp and send_telegram return True only when the channel
\* call went through without a fault; with a credential missing or no
\* client at hand they return False and do not call the channel; no
\* exception leaves either function.
C20_SendResult ==
  fx.last.fn # "none" =>
    /\ fx.last.ret => fx.last.called /\ fx.last.call_ok
    /\ ~CredentialsSet \/ ~fx.last.client => ~fx.last.called /\ ~fx.last.ret
    /\ ~fx.last.raised

\* send_whatsapp with a client at hand and no sender number
C20_Witness ==
  /\ fx.last.fn = "send_whatsapp"
  /\ fx.last.client
  /\ ~fx.number
  /\ ~fx.last.called
  /\ ~fx.last.ret

\* the last run_query call met a store failure: no connection, or a
\* statement or commit that failed
QueryFailed ==
  fx.kind # "none" /\ (fx.conn # "ok" \/ fx.exec # "ok" \/ fx.commit # "ok")

\* C21: a store failure in run_query comes back to the caller as no
\* result, never as an exception, and leaves the notices, the alerts and
\* the ledger as they were.
C21_FailureIsNoResult ==
  QueryFailed =>
    /\ fx.ret = "None"
    /\ ~fx.raised
    /\ <<notices, alerts, alerts_sent>> = fx.before

\* an INSERT whose commit failed, on a store that holds a row
C21_Witness ==
  /\ fx.kind = "insert_notice"
  /\ fx.conn = "ok"
  /\ fx.exec = "ok"
  /\ fx.commit = "error"
  /\ fx.ret = "None"
  /\ Len(notices) = 1

\* C22: the four supported literal shapes of one day resolve to the same
\* calendar date, that day, in try_parse_date and in
\* try_extract_date_from_text.
C22_SameDate ==
  fx.stage = "resolved" /\ MakeDate(fx.y, fx.m, fx.d) # NoneDate =>
    \A r \in Resolvers, sh \in DateShapes :
      fx.res[r][sh] = [y |-> fx.y, m |-> fx.m, d |-> fx.d]

\* 9 November 2025 written without leading zero and with the short name
C22_Witness ==
  /\ fx.stage = "resolved"
  /\ fx.y = 2025 /\ fx.m = 11 /\ fx.d = 9
  /\ ~fx.pad /\ fx.abbr
  /\ fx.res["gndec"]["yyyy-mm-dd"] = [y |-> 2025, m |-> 11, d |-> 9]
  /\ fx.res["ptu"]["dd Month yyyy"] = [y |-> 2025, m |-> 11, d |-> 9]

\* the notices due for alert a in the run of p that are dated within the
\* last day: yesterday or today
DueInWindow(p, a) == {n \in DueAtStart(p, a) : n.date <= today}

\* C23: a digest sent to an alert covers exactly the stored notices that
\* match the alert, had no ledger row for it and are dated within the last
\* day before the run; no notice dated outside that window is in a digest.
C23_DigestWindow ==
  \A p \in Procs :
    proc[p].job = "digest" =>
      \A k \in 1..Len(proc[p].disp) :
        proc[p].disp[k].nids =
          {n.id : n \in DueInWindow(p, AlertRow(proc[p].disp[k].alert))}

\* notice nid is stored and matches alert aid, an active daily alert on a
\* channel that has a send function
StoredForDaily(aid, nid) ==
  /\ nid <= Len(notices)
  /\ aid \in AlertIds
  /\ AlertRow(aid).active = 1
  /\ AlertRow(aid).frequency = "daily"
  /\ AlertRow(aid).channel \in {"telegram", "whatsapp"}
  /\ DigestMatches(AlertRow(aid), notices[nid])

\* C24: a stored notice that matches an active daily alert is in a digest
\* sent to that alert sooner or later, the digest job firing again and
\* again and the channel accepting sends, whatever the date the notice
\* carried when it was inserted.
C24_EventuallyInDigest ==
  \A aid \in 1..5 : \A nid \in 1..3 :
    StoredForDaily(aid, nid) ~> (SuccessfulSends(aid, nid) >= 1)

\* C25: an active alert is served by exactly one path: never by both
\* notify_if_matches and daily_digest, and never by neither, whatever
\* frequency create_alert stored.
C25_ExactlyOnePath ==
  fx.stage = "routed" /\ alerts[1].active = 1 =>
    /\ ~(fx.immediate /\ fx.daily)
    /\ fx.immediate \/ fx.daily

\* C26: the filter of notify_if_matches and the filter of daily_digest
\* take the same decision on every alert (keyword, source) and every notice
\* (title, source).
C26_SameMatch ==
  fx # <<>> /\ fx.pc = "done" => (fx.notify <=> fx.digest)

\* a keyword with a blank before it and in another case than the title,
\* accepted by both filters
C26_Witness ==
  /\ fx # <<>> /\ fx.pc = "done"
  /\ fx.alert.keyword = <<" ", "e", "X">>
  /\ fx.alert.source = NoText
  /\ fx.notify /\ fx.digest

\* the send calls to alert aid in the notify_if_matches call or the
\* daily_digest run that p is in
CallsTo(p, aid) ==
  {k \in DispatchesTo(p, aid) : proc[p].disp[k].out # "nocall"}

\* C27: no retry: in one notify_if_matches call and in one daily_digest run
\* an alert receives one send call at most, also when the call fails.
C27_NoRetry ==
  \A p \in Procs : \A aid \in 1..5 : Cardinality(CallsTo(p, aid)) <= 1

\* a send has failed and the loop has gone on to another alert
C27_Witness ==
  \E p \in Procs : \E k \in 1..Len(proc[p].disp) :
    /\ proc[p].disp[k].out = "failed"
    /\ Len(proc[p].disp) > k
    /\ Cardinality(CallsTo(p, proc[p].disp[k].alert)) = 1

\* the steps of a scraper run in which one candidate is in hand
ItemSteps == {"insert", "reselect", "n_get", "n_loop", "n_send", "n_mark"}

\* the steps of a daily_digest run in which one alert is in hand
AlertSteps == {"d_scan", "d_send", "d_mark"}

\* process p takes a step in which a store call returns None or a send
\* returns False
FaultIn(p) ==
  /\ proc'[p] # proc[p]
  /\ \/ fails' = fails + 1
     \/ FailedSends(sendLog') > FailedSends(sendLog)

\* alist' is alist without some first alerts, of which one at most passes
\* the filters of the notice in hand
OnlyCurrentDropped(p) ==
  LET al == proc[p].alist
  IN \E k \in 0..Len(al) :
       /\ proc'[p].alist = SubSeq(al, k + 1, Len(al))
       /\ Cardinality({i \in 1..k : PassesNotify(al[i], NoticeRow(p))}) <= 1

SentNow(p) ==
  IF proc[p].pc = "n_send" /\ sendLog' # sendLog
  THEN {<<proc[p].cur.id, proc[p].nid>>}
  ELSE IF proc[p].pc = "d_send" /\ sendLog' # sendLog
  THEN {<<Head(proc[p].alist).id, proc[p].matched[k].id>> :
          k \in 1..Len(proc[p].matched)}
  ELSE {}

\* C29: a failing ledger read never leads to a send of a notice to an alert
\* for which the ledger holds a record: no send call, by notify_if_matches
\* or by daily_digest, covers a pair (alert, notice) that has a ledger row.
C29_NoResendOnReadFailure ==
  [][\A p \in Procs :
       proc'[p] # proc[p] =>
         \A pr \in SentNow(p) : LedgerRows(pr[1], pr[2]) = 0]_vars

\* the notify_if_matches calls made for the stored notice nid
NotifyCalls(nid) ==
  LET for(r) == r.nid = nid
  IN CountIn(notifyLog, for)

\* C30: with two scraper runs taking up the same candidate and interleaving
\* their existence check, insert and re-select by link, no two stored
\* notices share a link or a title, every stored notice is handed to
\* notify_if_matches once at most, and no alert is sent a notice twice.
C30_InterleavingSafe ==
  /\ \A i, j \in 1..Len(notices) :
       (notices[i].link = notices[j].link \/ notices[i].title = notices[j].title)
         => i = j
  /\ \A nid \in NoticeIds : NotifyCalls(nid) <= 1
  /\ \A aid \in AlertIds : \A nid \in NoticeIds : SuccessfulSends(aid, nid) <= 1

\* the number of requests of url that the run has made
RequestsOf(url) ==
  Cardinality({k \in 1..Len(fx.out.urls) : fx.out.urls[k] = url})

\* C31: in one extraction cycle the listing page of a source is requested
\* once at most, and a run whose listing fetch failed goes on without a
\* page.
C31_FetchedOnce ==
  fx.stage = "fetched" =>
    /\ RequestsOf(GNDEC_URL) <= 1
    /\ RequestsOf(PTU_NOTICE_PAGE) <= 1
    /\ ~fx.replies[1].got => ~fx.out.soup.got

\* the steps of notify_if_matches and of daily_digest
DeliverySteps ==
  {"n_get", "n_loop", "n_send", "n_mark", "d_recent", "d_scan", "d_send", "d_mark",
   "d_done"}

\* process p takes a step of notify_if_matches or of daily_digest
DeliveryStepOf(p) ==
  /\ proc'[p] # proc[p]
  /\ proc[p].pc \in DeliverySteps \/ proc'[p].job = "digest"

\* C32: the stored notices are append-only: every step of a scraper, of
\* notify_if_matches and of daily_digest leaves each stored notice as it is
\* and in place; the alerts table is never written; a step of
\* notify_if_matches or daily_digest leaves the notices table as it is and
\* writes nothing but one new ledger row.
C32_AppendOnly ==
  [][ /\ Len(notices') >= Len(notices)
      /\ SubSeq(notices', 1, Len(notices)) = notices
      /\ alerts' = alerts
      /\ \A p \in Procs :
           DeliveryStepOf(p) =>
             /\ notices' = notices
             /\ \/ alerts_sent' = alerts_sent
                \/ /\ Len(alerts_sent') = Len(alerts_sent) + 1
                   /\ SubSeq(alerts_sent', 1, Len(alerts_sent)) = alerts_sent ]_vars

\* a second notice was stored after a ledger row for the first was written
C32_Witness ==
  /\ Len(notices) >= 2
  /\ \E i \in 1..Len(alerts_sent) : alerts_sent[i].notice_id = 1
  /\ \E p \in Procs : proc[p].pc \in DeliverySteps /\ proc[p].nid = 2

\* the anchors of the page that selector k matches
MatchedBy(k) == {i \in 1..Len(fx.page) : i \in {Select(fx.page, selectors[k])[j] :
                                                j \in 1..Len(Select(fx.page, selectors[k]))}}

\* the anchors a selector pass makes candidates of
Usable(i) ==
  /\ fx.page[i].text > 0
  /\ fx.page[i].href.has /\ fx.page[i].href.v # <<>>
  /\ HrefLower(fx.page[i].href.v)[1] \notin {"javascript:", "mailto:"}

\* the anchors the result was built from
ResultAnchors == {fx.out.notices[j].idx : j \in 1..Len(fx.out.notices)}

\* C33 as stated: as soon as a selector matches any element of the page the
\* result is built from that selector's matches only, no later selector and
\* no fallback scan being tried.
C33_FirstMatchingSelectorWins ==
  fx.stage = "extracted" =>
    \A k \in 1..Len(selectors) :
      (MatchedBy(k) # {} /\ \A j \in 1..(k - 1) : MatchedBy(j) = {}) =>
        /\ fx.out.pass = "selector"
        /\ fx.out.sel = k
        /\ ResultAnchors \subseteq MatchedBy(k)

\* C33 as amended: the first selector of the list that yields a candidate
\* wins: the result holds the usable matches of that selector, all of them
\* and nothing else, in document order, and the fallback scan is not run.
C33_FirstYieldingSelectorWins ==
  fx.stage = "extracted" =>
    \A k \in 1..Len(selectors) :
      ((\E i \in MatchedBy(k) : Usable(i))
         /\ \A j \in 1..(k - 1) : \A i \in MatchedBy(j) : ~Usable(i)) =>
        /\ fx.out.pass = "selector"
        /\ fx.out.sel = k
        /\ ResultAnchors = {i \in MatchedBy(k) : Usable(i)}
        /\ \A a, b \in 1..Len(fx.out.notices) :
             a < b => fx.out.notices[a].idx < fx.out.notices[b].idx

\* a selector matched an anchor that makes no candidate and a later
\* selector gave the result
C33_Witness ==
  /\ fx.stage = "extracted"
  /\ fx.out.pass = "selector"
  /\ fx.out.sel > 1
  /\ MatchedBy(1) # {}
  /\ fx.out.notices # <<>>

\* the words that make an anchor a fallback candidate whatever its length
HintsAtNotice(h) ==
  \E w \in {"pdf", "notice", "circular"} : Contains(<<w>>, HrefLower(h))

\* C34: the fallback scan gives the result only when no selector produced a
\* candidate; no candidate of either pass has an empty title or a
\* javascript: or mailto: target; a fallback candidate has a text longer
\* than 30 characters or a target holding 'pdf', 'notice' or 'circular'.
C34_CandidateFilters ==
  fx.stage = "extracted" =>
    /\ fx.out.pass = "fallback" =>
         \A k \in 1..Len(selectors) : \A i \in MatchedBy(k) : ~Usable(i)
    /\ \A j \in 1..Len(fx.out.notices) :
         LET c == fx.out.notices[j]
         IN /\ c.title > 0
            /\ HrefLower(c.href)[1] \notin {"javascript:", "mailto:"}
            /\ fx.out.pass = "fallback" =>
                 \/ fx.page[c.idx].text > 30
                 \/ HintsAtNotice(fx.page[c.idx].href.v)

\* the fallback scan took a short anchor for its target and left out a long
\* anchor with a script or mail target
C34_Witness ==
  /\ fx.stage = "extracted"
  /\ fx.out.pass = "fallback"
  /\ \E j \in 1..Len(fx.out.notices) : fx.page[fx.out.notices[j].idx].text <= 30
  /\ \E i \in 1..Len(fx.page) :
       /\ fx.page[i].text > 30
       /\ NonNavigable(fx.page[i].href.v)
       /\ i \notin ResultAnchors

\* the cells of the row other than the date cell
OtherCells == {i \in 1..Len(fx.tds) : i # fx.out.date_td}

\* C35: the date cell is the first cell holding a parseable date; the title
\* is the text of the longest cell other than the date cell, the earliest
\* of the longest; a row whose other cells are all empty yields no title
\* and is skipped by run.
C35_RowHeuristic ==
  fx.stage = "read" =>
    /\ \A i \in 1..Len(fx.tds) :
         fx.tds[i].date # NoDate => (fx.out.date_td # 0 /\ fx.out.date_td <= i)
    /\ fx.out.date_td # 0 => fx.tds[fx.out.date_td].date # NoDate
    /\ IF \E i \in OtherCells : fx.tds[i].text # <<>>
       THEN /\ fx.out.title_td \in OtherCells
            /\ fx.out.title = fx.tds[fx.out.title_td].text
            /\ \A j \in OtherCells :
                 /\ Len(fx.tds[j].text) <= Len(fx.out.title)
                 /\ Len(fx.tds[j].text) = Len(fx.out.title) => fx.out.title_td <= j
       ELSE /\ fx.out.title = NoText
            /\ ~fx.kept

\* two cells after the date cell are equally long, with different texts,
\* and the earlier one gave the title
C35_Witness ==
  /\ fx.stage = "read"
  /\ fx.out.date_td = 1
  /\ fx.out.title_td = 2
  /\ Len(fx.tds) = 3
  /\ Len(fx.tds[3].text) = Len(fx.tds[2].text)
  /\ fx.tds[3].text # fx.tds[2].text
  /\ fx.kept

\* what each strategy of the claim finds on the page, in the claim's order:
\* the time element's attribute, its text, the meta tag, the hinted
\* element, the full text
Strategies ==
  << IF fx.page.time THEN try_extract_date_from_text(fx.page.datetime) ELSE NoneDate,
     IF fx.page.time THEN try_extract_date_from_text(fx.page.ttext) ELSE NoneDate,
     try_extract_date_from_text(fx.page.meta),
     try_extract_date_from_text(fx.page.hinted),
     SearchFrom(PageText(fx.page), 1) >>

\* C36: the page date is what the first strategy that parses gives, in the
\* order attribute, text of the time element, meta tag, hinted element,
\* full text (the text of the time element being tried when its attribute
\* does not parse), and none only when every strategy fails.
C36_StrategyOrder ==
  (fx.stage = "resolved" /\ fx.page.got) =>
    LET ok == {k \in 1..5 : Strategies[k] # NoneDate}
    IN IF ok = {} THEN fx.date = NoneDate
       ELSE fx.date = Strategies[Min(ok)]

\* process p ends the handling of a candidate and is back at the head of
\* the candidate loop of the same run
ItemEnds(p) ==
  /\ proc[p].pc \in ItemSteps
  /\ proc'[p].pc = "loop"

\* C37: the count a scraper run reports (saved) is the number of notices
\* the run added to the store: the count goes up by one when the handling
\* of a candidate ends with a row written for it, and stays otherwise, a
\* failing INSERT included.
C37_SavedCountsInserts ==
  [][\A p \in Procs :
       ItemEnds(p) =>
         proc'[p].saved = proc[p].saved + (IF proc[p].ins # 0 THEN 1 ELSE 0)]_vars

\* a turn of a digest loop moves on: the list of alerts never grows, and
\* while the alert stays the same the index into the recent notices (scan)
\* or into the matched notices (mark) goes up
DigestMovesOn(p) ==
  (proc[p].job = "digest" /\ proc'[p].job = "digest" /\ proc'[p] # proc[p]
     /\ proc[p].pc \in AlertSteps /\ proc'[p].pc \in AlertSteps) =>
    /\ Len(proc'[p].alist) <= Len(proc[p].alist)
    /\ (Len(proc'[p].alist) = Len(proc[p].alist) /\ proc'[p].pc = proc[p].pc) =>
         proc'[p].ridx = proc[p].ridx + 1 \/ proc'[p].ridx > proc[p].ridx

\* C38: every invocation terminates: a PTU scan handles MAX_ROWS rows after
\* the header at most and then returns; save_notices handles each candidate
\* once, with one item-page fetch at most and none for a candidate it found
\* in the store, and then returns; a daily_digest run never goes back in
\* its alerts or its notices and returns.
C38_Terminates ==
  /\ [](/\ fx.handled <= (IF fx.job = "ptu" THEN MAX_ROWS ELSE fx.n)
        /\ fx.stage = "done" =>
             /\ fx.job = "ptu" =>
                  fx.handled = (IF fx.n - 1 > MAX_ROWS THEN MAX_ROWS
                                ELSE IF fx.n > 0 THEN fx.n - 1 ELSE 0)
             /\ \A k \in 1..Len(fx.visits) :
                  /\ fx.visits[k] = 1
                  /\ fx.fetches[k] <= 1
                  /\ fx.found[k] => fx.fetches[k] = 0)
  /\ [][\A p \in Procs : DigestMovesOn(p)]_vars
  /\ (fx.job \in {"ptu", "gndec"}) ~> (fx.stage = "done")
  /\ \A p \in Procs : (proc[p].job = "digest") ~> (proc[p].pc = "idle")

\* a table longer than MAX_ROWS was scanned to the cap and the run returned
C38_Witness ==
  /\ fx.job = "ptu"
  /\ fx.stage = "done"
  /\ fx.n > MAX_ROWS + 1
  /\ fx.handled = MAX_ROWS

\* the id of the row is missing or is no integer
InvalidId == fx.id.kind \in {"missing", "None", "text", "empty"}

\* C39: a call of notify_if_matches with a row whose id is missing or not
\* an integer returns at once: the alerts are not read, nothing is sent and
\* the ledger is not written.
C39_InvalidIdReturns ==
  InvalidId =>
    /\ \A p \in Procs : proc[p] = Idle
    /\ fails = 0
    /\ sendLog = EmptyBag
    /\ alerts_sent = fx.ledger
    /\ markDone = {}

\* the call has returned on a missing id while an active immediate alert
\* matches the row
C39_Witness ==
  /\ fx.stage = "returned"
  /\ fx.id.kind = "missing"
  /\ \E i \in 1..Len(alerts) :
       /\ alerts[i].active = 1
       /\ PassesNotify(alerts[i], StoredNotices[fx.row])

====
